---- MODULE Spec2Model ----
(***************************************************************************)
(* Model of the timeline layout and scroll synchronisation of              *)
(* ez_timeline_project: the zustand store (tasks, currentView,             *)
(* timelineZoom), the editable Timeline and the ReadOnlyTimeline           *)
(* (timelineData, getTaskPosition, getColumnWidth, the task bar style),    *)
(* the scroll effect's handleScroll and its binding to the rendered rows,  *)
(* the persistence of timelineZoom and sidebarCollapsed in localStorage,   *)
(* the zoom buttons, the Kanban board (drag and drop, columns), the        *)
(* Dashboard's project summary and task loading effects, and the handlers  *)
(* that create, edit, toggle and delete tasks through the task service.    *)
(*                                                                         *)
(* Time is counted in ticks of local time; a Date is <<t>> for the instant *)
(* t and <<>> for an Invalid Date (a Date without a time value).  Day 0 of *)
(* the model is Friday 31 January 2025, so that the window of task dates   *)
(* holds a month boundary (day 1, 1 February) and a week boundary (day 2,  *)
(* Sunday 2 February).                                                     *)
(***************************************************************************)
EXTENDS Integers, Sequences, FiniteSets, TLC

VARIABLES tasks, currentView, timelineZoom,
          scrollLeft, pending, lastUserScroll, lastHandled,
          effectDeps, registered, headerHandlers, rowHandlers,
          capturedRows, detachedRows, lastEffect, memo,
          isSidebarCollapsed, zoomType, storage, lastOp,
          customColumns, draggedTask, dropInFlight, now, lastBoardOp,
          selectedProject, storedProjectId,
          inputVersion, timers, cleanup, computing, projectSummary,
          isLoadingSummary, apiKeyValid, lastSummaryOp,
          run, serverDocs, issuedIds, fetches, subscription, snapshotDue,
          initialFetchDone, loaded, pendingLocal, lastLoad,
          editInFlight, lastEdit

vars == <<tasks, currentView, timelineZoom,
          scrollLeft, pending, lastUserScroll, lastHandled,
          effectDeps, registered, headerHandlers, rowHandlers,
          capturedRows, detachedRows, lastEffect, memo,
          isSidebarCollapsed, zoomType, storage, lastOp,
          customColumns, draggedTask, dropInFlight, now, lastBoardOp,
          selectedProject, storedProjectId,
          inputVersion, timers, cleanup, computing, projectSummary,
          isLoadingSummary, apiKeyValid, lastSummaryOp,
          run, serverDocs, issuedIds, fetches, subscription, snapshotDue,
          initialFetchDone, loaded, pendingLocal, lastLoad,
          editInFlight, lastEdit>>

layoutVars == <<tasks, currentView, timelineZoom>>
scrollVars == <<scrollLeft, pending, lastUserScroll, lastHandled>>
bindVars == <<effectDeps, registered, headerHandlers, rowHandlers,
              capturedRows, detachedRows, lastEffect, memo>>
persistVars == <<isSidebarCollapsed, zoomType, storage, lastOp>>
boardVars == <<customColumns, draggedTask, dropInFlight, now, lastBoardOp>>
projectVars == <<selectedProject, storedProjectId>>
summaryVars == <<inputVersion, timers, cleanup, computing, projectSummary,
                 isLoadingSummary, apiKeyValid, lastSummaryOp>>
syncVars == <<run, serverDocs, issuedIds, fetches, subscription, snapshotDue,
              initialFetchDone, loaded, pendingLocal, lastLoad>>
editVars == <<editInFlight, lastEdit>>
asyncVars == <<projectVars, summaryVars, syncVars, editVars>>

(***************************************************************************)
(* Bounds of the model.                                                    *)
(***************************************************************************)
\* Task dates are the instants 0..MaxTick.
MaxTick == 5
\* Resolution of the clock: instants per calendar day.
TicksPerDay == 2
\* Ids the task documents can carry.
TaskIds == {"t1", "t2"}
\* Arguments setTimelineZoom is called with (it clamps them).
ZoomInputs == {25, 50, 75, 125, 200, 300}
\* Number of task rows bound to the scroll handler, and the scroll range.
NumRows == 2
MaxScroll == 2

(***************************************************************************)
(* Small helpers.                                                          *)
(***************************************************************************)
SetMin(S) == CHOOSE x \in S : \A y \in S : x <= y
SetMax(S) == CHOOSE x \in S : \A y \in S : x >= y
Max(a, b) == IF a >= b THEN a ELSE b
Min(a, b) == IF a <= b THEN a ELSE b

\* Non-negative rationals <<n, d>> with d > 0, for the percentages and the
\* pixel values that JavaScript computes as numbers.
RLe(a, b) == a[1] * b[2] <= b[1] * a[2]
RLt(a, b) == a[1] * b[2] < b[1] * a[2]
REq(a, b) == a[1] * b[2] = b[1] * a[2]
RMax(a, b) == IF RLe(b, a) THEN a ELSE b
RAdd(a, b) == <<a[1] * b[2] + b[1] * a[2], a[2] * b[2]>>
RMul(a, b) == <<a[1] * b[1], a[2] * b[2]>>
RInt(n) == <<n, 1>>

(***************************************************************************)
(* Dates and the date-fns functions the components import.                 *)
(***************************************************************************)
Instants == 0..MaxTick
InvalidDate == <<>>
Dates == {<<t>> : t \in Instants} \cup {InvalidDate}
getTime(d) == d[1]

\* d instanceof Date && !isNaN(d.getTime())
isValidDate(d) == Len(d) = 1

DaysPerWeek == 7
\* Day 0 is a Friday (Sunday = 0).
EpochWeekday == 5
\* First days of January..April 2025, counted from day 0 = 31 January 2025.
MonthStartDays == {0 - 30, 1, 29, 60}

DayOf(t) == t \div TicksPerDay
startOfDay(t) == DayOf(t) * TicksPerDay
Weekday(d) == (d + EpochWeekday) % DaysPerWeek
startOfWeek(t) == (DayOf(t) - Weekday(DayOf(t))) * TicksPerDay
endOfWeek(t) == startOfWeek(t) + DaysPerWeek * TicksPerDay - 1
startOfMonth(t) == SetMax({m \in MonthStartDays : m <= DayOf(t)}) * TicksPerDay
endOfMonth(t) == SetMin({m \in MonthStartDays : m > DayOf(t)}) * TicksPerDay - 1
addMonths1(t) == endOfMonth(t) + 1

\* Full days from b to a, truncated towards zero.
differenceInDays(a, b) ==
    IF a >= b THEN (a - b) \div TicksPerDay ELSE 0 - ((b - a) \div TicksPerDay)

RECURSIVE eachDayFrom(_, _)
eachDayFrom(cur, endTime) ==
    IF cur > endTime THEN <<>>
    ELSE <<cur>> \o eachDayFrom(cur + TicksPerDay, endTime)
\* A day sequence that starts at the instant given, not at its day's start.
eachDayOfIntervalFromInstant(s, e) == eachDayFrom(s, e)
eachDayOfInterval(s, e) == eachDayFrom(startOfDay(s), e)

RECURSIVE eachWeekFrom(_, _)
eachWeekFrom(cur, endTime) ==
    IF cur > endTime THEN <<>>
    ELSE <<cur>> \o eachWeekFrom(cur + DaysPerWeek * TicksPerDay, endTime)
eachWeekOfInterval(s, e) == eachWeekFrom(startOfWeek(s), startOfWeek(e))

RECURSIVE eachMonthFrom(_, _)
eachMonthFrom(cur, endTime) ==
    IF cur > endTime THEN <<>>
    ELSE <<cur>> \o eachMonthFrom(addMonths1(cur), endTime)
eachMonthOfInterval(s, e) == eachMonthFrom(startOfMonth(s), e)

\* endOfWeek(period) in the weekly branch, endOfMonth(period) in the monthly one.
endOfPeriod(view, period) ==
    IF view = "weekly" THEN endOfWeek(period) ELSE endOfMonth(period)

\* Mutant of findIndex: the end of the period is excluded from its range.
findIndexEndExcluded(periods, view, date) ==
    LET hit == {i \in DOMAIN periods :
                    date >= periods[i] /\ date < endOfPeriod(view, periods[i])}
    IN  IF hit = {} THEN 0 - 1 ELSE SetMin(hit) - 1

\* Array.prototype.findIndex over the periods with the range test
\* date >= period && date <= endOfPeriod; 0-based, -1 when none matches.
findIndex(periods, view, date) ==
    LET hit == {i \in DOMAIN periods :
                    date >= periods[i] /\ date <= endOfPeriod(view, periods[i])}
    IN  IF hit = {} THEN 0 - 1 ELSE SetMin(hit) - 1

(***************************************************************************)
(* The editable Timeline component.                                        *)
(***************************************************************************)
\* Mutant of isValidTask: only startDate is tested.
isValidTaskStartOnly(t) == isValidDate(t.startDate)

\* validTasks: tasks.filter(t => isValidDate(t.startDate) && isValidDate(t.endDate))
isValidTask(t) == isValidDate(t.startDate) /\ isValidDate(t.endDate)
validTasks(ts) == SelectSeq(ts, isValidTask)

\* allDates: validTasks.flatMap(task => [task.startDate, task.endDate]), as times.
allDates(vt) ==
    {getTime(vt[i].startDate) : i \in DOMAIN vt}
        \cup {getTime(vt[i].endDate) : i \in DOMAIN vt}

\* The switch over currentView: the periods and the actual start and end.
generatePeriods(view, minDate, maxDate) ==
    CASE view = "daily" ->
            [periods |-> eachDayOfInterval(minDate, maxDate),
             startDate |-> <<minDate>>, endDate |-> <<maxDate>>]
      [] view = "weekly" ->
            [periods |-> eachWeekOfInterval(startOfWeek(minDate), endOfWeek(maxDate)),
             startDate |-> <<startOfWeek(minDate)>>,
             endDate |-> <<endOfWeek(maxDate)>>]
      [] view = "monthly" ->
            [periods |-> eachMonthOfInterval(startOfMonth(minDate), endOfMonth(maxDate)),
             startDate |-> <<startOfMonth(minDate)>>,
             endDate |-> <<endOfMonth(maxDate)>>]
      [] OTHER ->
            [periods |-> <<>>, startDate |-> <<minDate>>, endDate |-> <<maxDate>>]

\* The useMemo: startDate and endDate are <<>> for null.
timelineData(ts, view) ==
    LET vt == validTasks(ts)
    IN  IF Len(vt) = 0
        THEN [periods |-> <<>>, tasks |-> <<>>, startDate |-> <<>>, endDate |-> <<>>]
        ELSE LET g == generatePeriods(view, SetMin(allDates(vt)), SetMax(allDates(vt)))
             IN  [periods |-> g.periods, tasks |-> vt,
                  startDate |-> g.startDate, endDate |-> g.endDate]

\* Daily branch: the days of the whole timeline and of the task.  The
\* ReadOnlyTimeline repeats these lines, and those of the two indexes below,
\* word for word (lines 107-120, 126-139 and 147-150).
totalDaysOf(td) == differenceInDays(getTime(td.endDate), getTime(td.startDate)) + 1
taskStartDays(task, td) ==
    Max(0, differenceInDays(getTime(task.startDate), getTime(td.startDate)))
taskEndDays(task, td) ==
    Min(totalDaysOf(td) - 1,
        differenceInDays(getTime(task.endDate), getTime(td.startDate)))
\* Mutant of taskDuration: the end day is not counted.
taskDurationEndNotCounted(task, td) ==
    Max(1, taskEndDays(task, td) - taskStartDays(task, td))
\* Mutant of taskDuration: no floor of one day.
taskDurationNoFloor(task, td) ==
    taskEndDays(task, td) - taskStartDays(task, td) + 1
taskDuration(task, td) ==
    Max(1, taskEndDays(task, td) - taskStartDays(task, td) + 1)

\* Weekly and monthly branches: the start and end period indexes.
startIndex(task, periods, view) ==
    LET found == findIndex(periods, view, getTime(task.startDate))
    IN  Max(0, IF found >= 0 THEN found ELSE 0)
\* Mutant of endIndex: the found index is not raised to the start index.
endIndexNotRaised(task, periods, view) ==
    LET found == findIndex(periods, view, getTime(task.endDate))
        start == startIndex(task, periods, view)
    IN  Min(Len(periods) - 1, IF found >= 0 THEN found ELSE start)
endIndex(task, periods, view) ==
    LET found == findIndex(periods, view, getTime(task.endDate))
        start == startIndex(task, periods, view)
    IN  Min(Len(periods) - 1, Max(IF found >= 0 THEN found ELSE start, start))

\* getTaskPosition of the Timeline: left and width in percent of the grid.
getTaskPosition(task, td, view) ==
    IF Len(td.periods) = 0 \/ td.startDate = <<>> \/ td.endDate = <<>>
    THEN [left |-> RInt(0), width |-> RInt(0)]
    ELSE IF view = "weekly"
    THEN LET total == Len(td.periods)
             s == startIndex(task, td.periods, "weekly")
             e == endIndex(task, td.periods, "weekly")
         IN  [left |-> <<s * 100, total>>, width |-> <<(e - s + 1) * 100, total>>]
    ELSE IF view = "monthly"
    THEN LET total == Len(td.periods)
             s == startIndex(task, td.periods, "monthly")
             e == endIndex(task, td.periods, "monthly")
         IN  [left |-> <<s * 100, total>>, width |-> <<(e - s + 1) * 100, total>>]
    ELSE LET total == totalDaysOf(td)
             left == <<taskStartDays(task, td) * 100, total>>
             width == <<taskDuration(task, td) * 100, total>>
         IN  [left |-> RMax(RInt(0), left), width |-> RMax(RInt(1), width)]

\* Math.round(baseWidth * (timelineZoom / 100)), rounding halves up.
getColumnWidth(view, zoom) ==
    LET baseWidth == IF view = "daily" THEN 100
                     ELSE IF view = "weekly" THEN 120 ELSE 150
    IN  (2 * baseWidth * zoom + 100) \div 200

\* The style of a task bar: percent of the grid width to pixels, 40px minimum.
barStyle(position, gridWidth) ==
    [left |-> RMul(RMul(position.left, <<1, 100>>), RInt(gridWidth)),
     width |-> RMax(RMul(RMul(position.width, <<1, 100>>), RInt(gridWidth)), RInt(40))]

\* What the component renders: the empty state (no bars) when there are no
\* periods, else the grid width and one bar per task of timelineData.
renderTimeline(ts, view, zoom) ==
    LET td == timelineData(ts, view)
        gridWidth == Len(td.periods) * getColumnWidth(view, zoom)
    IN  IF Len(td.periods) = 0
        THEN [empty |-> TRUE, gridWidth |-> 0, bars |-> <<>>]
        ELSE [empty |-> FALSE, gridWidth |-> gridWidth,
              bars |-> [i \in DOMAIN td.tasks |->
                          LET st == barStyle(getTaskPosition(td.tasks[i], td, view),
                                             gridWidth)
                          IN  [id |-> td.tasks[i].id, left |-> st.left,
                               width |-> st.width]]]

\* Dashboard: currentView === 'kanban' ? <KanbanBoard/> : <Timeline/>.
dashboardShowsTimeline(view) == view # "kanban"
\* What the two pages with a ViewToggle put under it: the Dashboard
\* currentView === 'kanban' ? <KanbanBoard/> : <Timeline/>, the shared page
\* <ReadOnlyTimeline/> whatever the view.
dashboardShows(view) == IF view = "kanban" THEN "KanbanBoard" ELSE "Timeline"
sharedPageShows(view) == "ReadOnlyTimeline"

(***************************************************************************)
(* The ReadOnlyTimeline component of the shared-project page.              *)
(***************************************************************************)
roIsValidTask(t) == isValidDate(t.startDate) /\ isValidDate(t.endDate)
roValidTasks(ts) == SelectSeq(ts, roIsValidTask)

roGeneratePeriods(view, minDate, maxDate) ==
    CASE view = "daily" ->
            [periods |-> eachDayOfInterval(minDate, maxDate),
             startDate |-> <<minDate>>, endDate |-> <<maxDate>>]
      [] view = "weekly" ->
            [periods |-> eachWeekOfInterval(startOfWeek(minDate), endOfWeek(maxDate)),
             startDate |-> <<startOfWeek(minDate)>>,
             endDate |-> <<endOfWeek(maxDate)>>]
      [] view = "monthly" ->
            [periods |-> eachMonthOfInterval(startOfMonth(minDate), endOfMonth(maxDate)),
             startDate |-> <<startOfMonth(minDate)>>,
             endDate |-> <<endOfMonth(maxDate)>>]
      [] OTHER ->
            [periods |-> <<>>, startDate |-> <<minDate>>, endDate |-> <<maxDate>>]

roTimelineData(ts, view) ==
    LET vt == roValidTasks(ts)
    IN  IF Len(vt) = 0
        THEN [periods |-> <<>>, tasks |-> <<>>, startDate |-> <<>>, endDate |-> <<>>]
        ELSE LET g == roGeneratePeriods(view, SetMin(allDates(vt)), SetMax(allDates(vt)))
             IN  [periods |-> g.periods, tasks |-> vt,
                  startDate |-> g.startDate, endDate |-> g.endDate]

roGetColumnWidth(view, zoom) ==
    LET baseWidth == IF view = "daily" THEN 100
                     ELSE IF view = "weekly" THEN 120 ELSE 150
    IN  (2 * baseWidth * zoom + 100) \div 200

\* getTaskPosition of the ReadOnlyTimeline: left and width in pixels.
roGetTaskPosition(task, td, view, columnWidth) ==
    IF Len(td.periods) = 0 \/ td.startDate = <<>> \/ td.endDate = <<>>
    THEN [left |-> 0, width |-> 0]
    ELSE IF view = "weekly"
    THEN LET s == startIndex(task, td.periods, "weekly")
             e == endIndex(task, td.periods, "weekly")
         IN  [left |-> s * columnWidth, width |-> (e - s + 1) * columnWidth]
    ELSE IF view = "monthly"
    THEN LET s == startIndex(task, td.periods, "monthly")
             e == endIndex(task, td.periods, "monthly")
         IN  [left |-> s * columnWidth, width |-> (e - s + 1) * columnWidth]
    ELSE LET left == taskStartDays(task, td) * columnWidth
             width == taskDuration(task, td) * columnWidth
         IN  [left |-> Max(0, left), width |-> Max(columnWidth, width)]

roBarStyle(position) ==
    [left |-> RInt(position.left), width |-> RInt(Max(position.width, 40))]

\* SharedProject renders <ReadOnlyTimeline/> under the view toggle for every
\* value of currentView.
renderReadOnly(ts, view, zoom) ==
    LET td == roTimelineData(ts, view)
        columnWidth == roGetColumnWidth(view, zoom)
    IN  IF Len(td.periods) = 0
        THEN [empty |-> TRUE, gridWidth |-> 0, bars |-> <<>>]
        ELSE [empty |-> FALSE, gridWidth |-> Len(td.periods) * columnWidth,
              bars |-> [i \in DOMAIN td.tasks |->
                          LET st == roBarStyle(roGetTaskPosition(td.tasks[i], td, view,
                                                                 columnWidth))
                          IN  [id |-> td.tasks[i].id, left |-> st.left,
                               width |-> st.width]]]

\* taskService.getProjectTasks: the documents with two valid dates.
getProjectTasks(docs) == SelectSeq(docs, isValidTask)

(***************************************************************************)
(* The store (useStore): the task list handed to the timeline, the view    *)
(* and the zoom.  The setters take any Task; dates that are not valid      *)
(* reach a timeline unfiltered through shareService.getSharedProject.      *)
(***************************************************************************)
Views == {"daily", "weekly", "monthly", "kanban"}
TaskValues == [id : TaskIds, startDate : Dates, endDate : Dates]
idsOf(ts) == {ts[i].id : i \in DOMAIN ts}
\* What the Dashboard passes to setTasks: [] or a list read from the task service.
Snapshots == {<<>>} \cup {<<t>> : t \in {v \in TaskValues : isValidTask(v)}}

(***************************************************************************)
(* localStorage.  An entry is the text stored under a key: a decimal       *)
(* numeral (kind "number", n its value), one of the texts true, false and  *)
(* null, the empty text, a text that is not JSON ("garbage"), or nothing   *)
(* ("missing": getItem returns null).  A JavaScript value is a record of   *)
(* its type, its number n and its boolean b.  timelineZoom holds the       *)
(* number of the store's zoom and zoomType its type: a zoom restored from  *)
(* the text null is null, and counts as the number 0 in arithmetic.        *)
(***************************************************************************)
entry(kind, n) == [kind |-> kind, n |-> n]
Missing == entry("missing", 0)
jsNumber(n) == [type |-> "number", n |-> n, b |-> FALSE]
jsBoolean(b) == [type |-> "boolean", n |-> 0, b |-> b]
jsNull == [type |-> "null", n |-> 0, b |-> FALSE]

\* JSON.stringify of a number; Boolean.prototype.toString.
JSONstringify(n) == entry("number", n)
booleanToString(b) == IF b THEN entry("true", 0) ELSE entry("false", 0)

\* JSON.parse: the value of a JSON text, or a SyntaxError.
JSONparseThrows(text) == text.kind \in {"garbage", "empty"}
JSONparse(text) ==
    CASE text.kind = "number" -> jsNumber(text.n)
      [] text.kind = "true" -> jsBoolean(TRUE)
      [] text.kind = "false" -> jsBoolean(FALSE)
      [] OTHER -> jsNull

\* `saved ? ... : ...`: null and '' are falsy, every other string is truthy.
isTruthy(saved) == saved.kind \notin {"missing", "empty"}

\* The result of an initialiser: the value returned, or raised = TRUE when
\* an exception leaves it.
returned(value) == [raised |-> FALSE, value |-> value]
thrown == [raised |-> TRUE, value |-> jsNull]

\* An initialiser that takes every stored text for true.
initializeSidebarStateNoParse(st) ==
    LET saved == st.sidebarCollapsed
    IN returned(jsBoolean(isTruthy(saved)))
\* initializeSidebarState: saved ? JSON.parse(saved) : false, catch: false
initializeSidebarState(st) ==
    LET saved == st.sidebarCollapsed
    IN IF ~isTruthy(saved) THEN returned(jsBoolean(FALSE))
       ELSE IF JSONparseThrows(saved) THEN returned(jsBoolean(FALSE))
       ELSE returned(JSONparse(saved))

\* An initialiser without the try/catch.
initializeTimelineZoomNoCatch(st) ==
    LET saved == st.timelineZoom
    IN IF ~isTruthy(saved) THEN returned(jsNumber(100))
       ELSE IF JSONparseThrows(saved) THEN thrown
       ELSE returned(JSONparse(saved))
\* initializeTimelineZoom: saved ? JSON.parse(saved) : 100, catch: 100
initializeTimelineZoom(st) ==
    LET saved == st.timelineZoom
    IN IF ~isTruthy(saved) THEN returned(jsNumber(100))
       ELSE IF JSONparseThrows(saved) THEN returned(jsNumber(100))
       ELSE returned(JSONparse(saved))

\* The UI state built by create(): isSidebarCollapsed and timelineZoom come
\* from the two initialisers, each reading its own key.
startOp(st) ==
    LET zoom == initializeTimelineZoom(st)
        sidebar == initializeSidebarState(st)
    IN [raised |-> zoom.raised \/ sidebar.raised,
        buttonsOnly |-> zoom.value = jsNumber(100)]
StoreCreated(st) ==
    LET zoom == initializeTimelineZoom(st)
        sidebar == initializeSidebarState(st)
    IN /\ tasks = <<>>
       /\ currentView = "daily"
       /\ timelineZoom = zoom.value.n
       /\ zoomType = zoom.value.type
       /\ isSidebarCollapsed = sidebar.value.b
       /\ storage = st

EmptyStorage == [timelineZoom |-> Missing, sidebarCollapsed |-> Missing]

LayoutInit ==
    /\ tasks = <<>>
    /\ currentView = "daily"
    /\ timelineZoom = 100

\* setTasks: (tasks) => set({ tasks })
SetTasks(ts) ==
    /\ tasks' = ts
    /\ UNCHANGED <<currentView, timelineZoom>>

\* addTask: tasks: [...state.tasks, task]; the id is the one the data source
\* has just created for the document.
AddTask(task) ==
    /\ tasks' = Append(tasks, task)
    /\ UNCHANGED <<currentView, timelineZoom>>

\* updateTask: tasks.map(t => t.id === task.id ? task : t)
UpdateTask(task) ==
    /\ tasks' = [i \in DOMAIN tasks |->
                    IF tasks[i].id = task.id THEN task ELSE tasks[i]]
    /\ UNCHANGED <<currentView, timelineZoom>>

\* deleteTask: tasks.filter(t => t.id !== taskId)
keepOthers(ts, taskId) ==
    LET notIt(t) == t.id # taskId IN SelectSeq(ts, notIt)
DeleteTask(taskId) ==
    /\ tasks' = keepOthers(tasks, taskId)
    /\ UNCHANGED <<currentView, timelineZoom>>

\* setCurrentView: the four buttons of ViewToggle.
SetCurrentView(view) ==
    /\ currentView' = view
    /\ UNCHANGED <<tasks, timelineZoom>>

\* A clamp without the upper end.
clampZoomNoUpper(zoom) == Max(50, zoom)
\* setTimelineZoom: Math.max(50, Math.min(200, zoom))
clampZoom(zoom) == Max(50, Min(200, zoom))
\* setTimelineZoom: set({ timelineZoom: clampedZoom }) and
\* localStorage.setItem('timelineZoom', JSON.stringify(clampedZoom))
SetTimelineZoom(zoom) ==
    /\ timelineZoom' = clampZoom(zoom)
    /\ zoomType' = "number"
    /\ storage' = [storage EXCEPT !.timelineZoom = JSONstringify(clampZoom(zoom))]
    /\ UNCHANGED <<tasks, currentView>>

\* handleZoomIn passes Math.max instead of Math.min.
zoomInTargetMax(zoom) == Max(200, zoom + 25)
\* handleZoomIn: setTimelineZoom(Math.min(200, timelineZoom + 25))
zoomInTarget(zoom) == Min(200, zoom + 25)
HandleZoomIn == SetTimelineZoom(zoomInTarget(timelineZoom))

\* handleZoomOut: setTimelineZoom(Math.max(50, timelineZoom - 25))
zoomOutTarget(zoom) == Max(50, zoom - 25)
HandleZoomOut == SetTimelineZoom(zoomOutTarget(timelineZoom))

\* handleReset: setTimelineZoom(100)
HandleReset == SetTimelineZoom(100)

\* setSidebarCollapsed: localStorage.setItem('sidebarCollapsed',
\* isSidebarCollapsed.toString()) and set({ isSidebarCollapsed })
SetSidebarCollapsed(collapsed) ==
    /\ storage' = [storage EXCEPT !.sidebarCollapsed = booleanToString(collapsed)]
    /\ isSidebarCollapsed' = collapsed
    /\ UNCHANGED <<tasks, currentView, timelineZoom, zoomType>>

\* A reload of the page: the store is created again from what is stored.
Restart ==
    LET zoom == initializeTimelineZoom(storage)
        sidebar == initializeSidebarState(storage)
    IN /\ tasks' = <<>>
       /\ currentView' = "daily"
       /\ timelineZoom' = zoom.value.n
       /\ zoomType' = zoom.value.type
       /\ isSidebarCollapsed' = sidebar.value.b
       /\ UNCHANGED storage

\* The operation that led to the state: its name, its argument, the zoom
\* before it, whether an initialiser raised, and whether the zoom has been
\* 100 at start-up and only moved by the three buttons since.
op(name, arg, buttonsOnly) ==
    [op |-> name, arg |-> arg, before |-> timelineZoom,
     beforeType |-> zoomType, raised |-> FALSE, buttonsOnly |-> buttonsOnly]
PersistInit ==
    /\ storage = EmptyStorage
    /\ isSidebarCollapsed = FALSE
    /\ zoomType = "number"
    /\ lastOp = [op |-> "create", arg |-> 0, before |-> 100,
                 beforeType |-> "number", raised |-> FALSE, buttonsOnly |-> TRUE]

(***************************************************************************)
(* The scroll effect: one handleScroll listening on the header (surface 0) *)
(* and on every task row (surfaces 1..NumRows).  A write to scrollLeft     *)
(* that changes the offset makes the browser queue a scroll event for the  *)
(* written element; queued events are dispatched in the order queued, and  *)
(* an element has at most one event queued.                                *)
(***************************************************************************)
Surfaces == 0..NumRows
Offsets == 0..MaxScroll

ScrollInit ==
    /\ scrollLeft = [s \in Surfaces |-> 0]
    /\ pending = <<>>
    /\ lastUserScroll = <<>>
    /\ lastHandled = "none"

targetsOf(q) == {q[i].target : i \in DOMAIN q}

\* Queue a scroll event for element s; cause is "user" for a user's scroll
\* and "sync" for a write of handleScroll.
queueScroll(q, s, cause) ==
    IF s \in targetsOf(q)
    THEN [i \in DOMAIN q |->
            IF q[i].target = s /\ cause = "user"
            THEN [target |-> s, cause |-> "user"] ELSE q[i]]
    ELSE Append(q, [target |-> s, cause |-> cause])

\* The user scrolls surface s to offset v.
UserScroll(s, v) ==
    /\ v # scrollLeft[s]
    /\ scrollLeft' = [scrollLeft EXCEPT ![s] = v]
    /\ pending' = queueScroll(pending, s, "user")
    /\ lastUserScroll' = <<v>>
    /\ UNCHANGED lastHandled

\* The elements handleScroll writes: all but the event's target.
RECURSIVE queueWritten(_, _, _, _)
queueWritten(q, s, target, value) ==
    IF s > NumRows THEN q
    ELSE queueWritten(
            IF s # target /\ scrollLeft[s] # value
            THEN queueScroll(q, s, "sync") ELSE q,
            s + 1, target, value)

\* handleScroll(e): the browser dispatches the oldest queued scroll event.
HandleScroll ==
    /\ pending # <<>>
    /\ LET e == Head(pending)
           value == scrollLeft[e.target]
       IN  /\ scrollLeft' = [s \in Surfaces |->
                                IF s # e.target THEN value ELSE scrollLeft[s]]
           /\ pending' = queueWritten(Tail(pending), 0, e.target, value)
           /\ lastHandled' = e.cause
    /\ UNCHANGED lastUserScroll

(***************************************************************************)
(* Specifications.                                                         *)
(***************************************************************************)
(***************************************************************************)
(* The binding of the scroll effect.  The effect runs after a commit whose *)
(* dependencies [timelineData.periods.length, timelineZoom] differ from     *)
(* those of its last run: first the cleanup the last run returned, then    *)
(* syncScroll.  A row is the element keyed by its task id: it stays the    *)
(* same element while the task stays among the rendered rows, and a row    *)
(* rendered anew is a new element without listeners.  The Dashboard        *)
(* unmounts the Timeline in the kanban view and the ReadOnlyTimeline       *)
(* renders its empty state there; both leave no header and no row, and     *)
(* both run the cleanup (unmount, or periods.length becoming 0).           *)
(*   effectDeps      the dependencies of the last run                      *)
(*   registered      the last run added listeners and returned a cleanup   *)
(*   headerHandlers  scroll listeners on the header element                *)
(*   rowHandlers     scroll listeners on the element of each row           *)
(*   capturedRows    rows of the last run's NodeList still in the document *)
(*   detachedRows    rows of that NodeList removed from the document       *)
(*   lastEffect      what the effect did after the last commit             *)
(***************************************************************************)
\* The '.timeline-scroll-sync' elements in the document, by task id.
rowSurfaces(ts, view) ==
    LET td == timelineData(ts, view)
    IN IF Len(td.periods) = 0 THEN {} ELSE idsOf(td.tasks)

\* The dependency array of the effect.
effectDepsOf(ts, view, zoom) == <<Len(timelineData(ts, view).periods), zoom>>

\* element.addEventListener('scroll', handleScroll) for every captured row.
addListeners(handlers, rows) ==
    [id \in TaskIds |-> IF id \in rows THEN handlers[id] + 1 ELSE handlers[id]]

\* A cleanup that forgets the rows.
removeListenersHeaderOnly(handlers, rows) == handlers
\* element.removeEventListener('scroll', handleScroll) for every captured row.
removeListeners(handlers, rows) ==
    [id \in TaskIds |-> IF id \in rows THEN handlers[id] - 1 ELSE handlers[id]]

NoEffect == [ran |-> FALSE, released |-> {}, added |-> {}]

\* A memo whose dependency array lacks currentView.
useMemoTasksOnly(cached, tasksReplaced, viewBefore, ts, view) ==
    IF view = "kanban" THEN <<>>
    ELSE IF cached = <<>> \/ tasksReplaced
    THEN <<timelineData(ts, view)>> ELSE cached
\* useMemo(() => ..., [tasks, currentView]) of the mounted Timeline: <<td>> is
\* the cached value, <<>> no Timeline (the Dashboard shows the KanbanBoard).
\* tasksReplaced: the store action put a new array into tasks.
useMemoTimelineData(cached, tasksReplaced, viewBefore, ts, view) ==
    IF view = "kanban" THEN <<>>
    ELSE IF cached = <<>> \/ tasksReplaced \/ view # viewBefore
    THEN <<timelineData(ts, view)>> ELSE cached

\* The render after a store change.
RenderTimeline(tasksReplaced) ==
    memo' = useMemoTimelineData(memo, tasksReplaced, currentView, tasks', currentView')

BindInit ==
    /\ effectDeps = <<0, timelineZoom>>
    /\ registered = FALSE
    /\ headerHandlers = 0
    /\ rowHandlers = [id \in TaskIds |-> 0]
    /\ capturedRows = {}
    /\ detachedRows = {}
    /\ lastEffect = NoEffect
    /\ memo = useMemoTimelineData(<<>>, TRUE, currentView, tasks, currentView)

\* The commit of a store change and the effect after it.
SyncScrollEffect ==
    LET before == rowSurfaces(tasks, currentView)
        rows == rowSurfaces(tasks', currentView')
        deps == effectDepsOf(tasks', currentView', timelineZoom')
        kept == capturedRows \cap rows
        detached == detachedRows \cup (capturedRows \ rows)
        \* the document after the commit
        committedRows == [id \in TaskIds |->
            IF id \in before \cap rows THEN rowHandlers[id] ELSE 0]
        committedHeader == IF before # {} /\ rows # {} THEN headerHandlers ELSE 0
        \* the cleanup of the last run
        cleanedRows == IF registered THEN removeListeners(committedRows, kept)
                       ELSE committedRows
        cleanedHeader == IF registered /\ before # {} /\ rows # {}
                         THEN committedHeader - 1 ELSE committedHeader
        \* if (!headerScrollElement || timelineScrollElements.length === 0) return
        binds == rows # {}
    IN IF deps = effectDeps
       THEN /\ rowHandlers' = committedRows
            /\ headerHandlers' = committedHeader
            /\ capturedRows' = kept
            /\ detachedRows' = detached
            /\ lastEffect' = NoEffect
            /\ UNCHANGED <<effectDeps, registered>>
       ELSE /\ effectDeps' = deps
            /\ registered' = binds
            /\ headerHandlers' = IF binds THEN cleanedHeader + 1 ELSE cleanedHeader
            /\ rowHandlers' = IF binds THEN addListeners(cleanedRows, rows)
                              ELSE cleanedRows
            /\ capturedRows' = IF binds THEN rows ELSE {}
            /\ detachedRows' = {}
            /\ lastEffect' = [ran |-> TRUE,
                              released |-> IF registered THEN capturedRows \cup detachedRows
                                          ELSE {},
                              added |-> IF binds THEN rows ELSE {}]

(***************************************************************************)
(* The Kanban board.  The Dashboard mounts it in the kanban view only; its *)
(* columns and the dragged task are state of the component and start anew  *)
(* on every mount.  A task of the board is its id, its status ("undefined" *)
(* when the field is absent) and its completed flag: the board reads the   *)
(* dates only to print them.  draggedTask is <<>> or <<task>>;             *)
(* dropInFlight is <<>> or the updatedTask and the draggedTask of a        *)
(* handleDrop waiting at `await taskService.updateTask`, and the model     *)
(* lets one handleDrop wait at a time.  lastBoardOp tells which handler    *)
(* led to the state.  now counts the milliseconds at which a column was added:    *)
(* the form is rendered again between two additions, so Date.now() has     *)
(* moved on.                                                               *)
(***************************************************************************)
NoStatus == "undefined"
DefaultStatuses == {"todo", "in-progress", "done", "pending", "blocked"}
\* `custom-${Date.now()}` at the successive milliseconds of the model.
CustomIds == <<"custom-1", "custom-2">>
NewTitles == {"Review"}
EditTitles == {"Renamed"}

column(id, title, status) == [id |-> id, title |-> title, status |-> status]
InitialColumns ==
    << column("todo", "To Do", "todo"),
       column("in-progress", "In Progress", "in-progress"),
       column("done", "Done", "done"),
       column("pending", "Pending", "pending"),
       column("blocked", "Blocked", "blocked") >>
columnIds(columns) == {columns[i].id : i \in DOMAIN columns}
columnStatuses(columns) == {columns[i].status : i \in DOMAIN columns}

\* A projection that lists a task under its own status only.
getTasksByStatusNoDefault(ts, status) ==
    LET inColumn(task) == task.status = status
    IN SelectSeq(ts, inColumn)
\* getTasksByStatus: tasks.filter(task => (task.status || 'todo') === status)
getTasksByStatus(ts, status) ==
    LET inColumn(task) ==
            (IF task.status = NoStatus THEN "todo" ELSE task.status) = status
    IN SelectSeq(ts, inColumn)

\* The cards on the board: the tasks listed under some column.
cards(ts, columns) ==
    UNION {{getTasksByStatus(ts, status)[i] :
               i \in DOMAIN getTasksByStatus(ts, status)} :
           status \in columnStatuses(columns)}

NoBoardOp == [op |-> "none", id |-> "", status |-> "", fromStatus |-> "",
              fromCompleted |-> FALSE, before |-> <<>>]

BoardInit ==
    /\ customColumns = InitialColumns
    /\ draggedTask = <<>>
    /\ dropInFlight = <<>>
    /\ now = 0
    /\ lastBoardOp = NoBoardOp

\* The view buttons of the Dashboard: entering or leaving the kanban view
\* mounts or unmounts the board.
OpenView(view) ==
    /\ SetCurrentView(view)
    /\ IF (view = "kanban") # (currentView = "kanban")
       THEN customColumns' = InitialColumns /\ draggedTask' = <<>>
       ELSE UNCHANGED <<customColumns, draggedTask>>
    /\ UNCHANGED <<dropInFlight, now>>

\* handleDragStart: setDraggedTask(task)
HandleDragStart(task) ==
    /\ currentView = "kanban"
    /\ task \in cards(tasks, customColumns)
    /\ draggedTask' = <<task>>
    /\ UNCHANGED <<layoutVars, customColumns, dropInFlight, now>>

\* A drop that leaves the completed flag alone.
updatedTaskKeepsCompleted(task, newStatus) ==
    [task EXCEPT !.status = newStatus]
\* handleDrop: { ...draggedTask, status: newStatus, completed }
updatedTask(task, newStatus) ==
    [task EXCEPT !.status = newStatus, !.completed = (newStatus = "done")]

\* handleDrop up to the await: nothing dragged or the same status ends the
\* drag; otherwise the update is sent to the task service.
HandleDrop(newStatus) ==
    /\ currentView = "kanban"
    /\ newStatus \in columnStatuses(customColumns)
    /\ dropInFlight = <<>>
    /\ IF draggedTask = <<>> \/ draggedTask[1].status = newStatus
       THEN /\ draggedTask' = <<>>
            /\ UNCHANGED dropInFlight
       ELSE /\ dropInFlight' = <<updatedTask(draggedTask[1], newStatus),
                                 draggedTask[1]>>
            /\ UNCHANGED draggedTask
    /\ UNCHANGED <<layoutVars, customColumns, now>>

\* handleDrop after the await resolved: updateTask(updatedTask) and
\* setDraggedTask(null).
DropSucceeded ==
    /\ dropInFlight # <<>>
    /\ UpdateTask(dropInFlight[1])
    /\ draggedTask' = <<>>
    /\ dropInFlight' = <<>>
    /\ lastBoardOp' = [NoBoardOp EXCEPT !.op = "drop",
                           !.id = dropInFlight[1].id,
                           !.status = dropInFlight[1].status,
                           !.fromStatus = dropInFlight[2].status,
                           !.fromCompleted = dropInFlight[2].completed]
    /\ UNCHANGED <<customColumns, now>>

\* handleDrop after the await rejected: the catch, and setDraggedTask(null).
DropFailed ==
    /\ dropInFlight # <<>>
    /\ draggedTask' = <<>>
    /\ dropInFlight' = <<>>
    /\ UNCHANGED <<layoutVars, customColumns, now>>

\* handleAddColumn with a title that is not blank.
HandleAddColumn(title) ==
    /\ currentView = "kanban"
    /\ now < Len(CustomIds)
    /\ now' = now + 1
    /\ customColumns' = Append(customColumns,
                               column(CustomIds[now'], title, CustomIds[now']))
    /\ UNCHANGED <<layoutVars, draggedTask, dropInFlight>>

\* A delete without the guard of the five default ids.
withoutColumnUnguarded(columns, columnId) ==
    LET notIt(col) == col.id # columnId
    IN SelectSeq(columns, notIt)
\* handleDeleteColumn: the five default ids are refused, otherwise
\* customColumns.filter(col => col.id !== columnId)
withoutColumn(columns, columnId) ==
    LET notIt(col) == col.id # columnId
    IN IF columnId \in {"todo", "in-progress", "done", "pending", "blocked"}
       THEN columns
       ELSE SelectSeq(columns, notIt)
HandleDeleteColumn(columnId) ==
    /\ currentView = "kanban"
    /\ customColumns' = withoutColumn(customColumns, columnId)
    /\ UNCHANGED <<layoutVars, draggedTask, dropInFlight, now>>

\* handleEditColumn: col.id === columnId ? { ...col, title: newTitle } : col
HandleEditColumn(columnId, newTitle) ==
    /\ currentView = "kanban"
    /\ customColumns' = [i \in DOMAIN customColumns |->
           IF customColumns[i].id = columnId
           THEN [customColumns[i] EXCEPT !.title = newTitle]
           ELSE customColumns[i]]
    /\ UNCHANGED <<layoutVars, draggedTask, dropInFlight, now>>

(***************************************************************************)
(* Dashboard: the selected project and the project summary.                *)
(***************************************************************************)
NoProject == "none"
Projects == {"p1", "p2"}
\* Number of changes of (selectedProject, tasks) the summary effect sees.
MaxChanges == 3

ProjectInit ==
    /\ selectedProject = NoProject
    /\ storedProjectId = NoProject

\* setSelectedProject: the id goes to localStorage under selectedProjectId
\* (removed for null), then set({ selectedProject }).
SetSelectedProject(project) ==
    /\ storedProjectId' = project
    /\ selectedProject' = project

\* What a run of the summary effect closes over.
closureOf(version, project, ts) ==
    [version |-> version, project |-> project, tasks |-> ts]
countCompleted(ts) == Cardinality({i \in DOMAIN ts : ts[i].completed})
countDone(ts) ==
    Cardinality({i \in DOMAIN ts : ts[i].completed \/ ts[i].status = "done"})
\* setProjectSummary('')
NoSummary == [kind |-> "empty", project |-> NoProject, total |-> 0, completed |-> 0]
\* The text built from the project name and the task counts.
fallbackSummary(c) ==
    [kind |-> "fallback", project |-> c.project, total |-> Len(c.tasks),
     completed |-> countCompleted(c.tasks)]
\* The text aiService.generateProjectSummary returns for the name and taskData.
generatedSummary(c) ==
    [kind |-> "generated", project |-> c.project, total |-> Len(c.tasks),
     completed |-> countDone(c.tasks)]
\* clearTimeout(timeoutId) of the cleanup the last run returned, if it returned one.
clearTimeout(pendingTimers, ids) == pendingTimers \ ids

summaryOp(name, from, latest) == [op |-> name, from |-> from, latest |-> latest]

SummaryInit ==
    /\ inputVersion = 0
    /\ timers = {}
    /\ cleanup = {}
    /\ computing = {}
    /\ projectSummary = NoSummary
    /\ isLoadingSummary = FALSE
    /\ apiKeyValid = TRUE
    /\ lastSummaryOp = summaryOp("clear", 0, 0)

\* The effect with deps [selectedProject, tasks], run after the change that
\* the same step makes to them: cleanup of the last run, then the body.
SummaryEffect ==
    LET c == closureOf(inputVersion + 1, selectedProject', tasks')
        cleared == clearTimeout(timers, cleanup)
    IN  /\ inputVersion' = inputVersion + 1
        /\ IF selectedProject' = NoProject \/ Len(tasks') = 0
           THEN /\ projectSummary' = NoSummary
                /\ timers' = cleared
                /\ cleanup' = {}
                /\ lastSummaryOp' = summaryOp("clear", c.version, c.version)
           ELSE IF ~apiKeyValid
           THEN /\ projectSummary' = fallbackSummary(c)
                /\ timers' = cleared
                /\ cleanup' = {}
                /\ lastSummaryOp' = summaryOp("fallback", c.version, c.version)
           ELSE /\ timers' = cleared \cup {c}
                /\ cleanup' = {c}
                /\ lastSummaryOp' = summaryOp("timer", c.version, c.version)
                /\ UNCHANGED projectSummary
        /\ UNCHANGED <<computing, isLoadingSummary, apiKeyValid>>

\* The 1000 ms timer fires: generateSummary runs up to its await.
TimerFires(c) ==
    /\ c \in timers
    /\ timers' = timers \ {c}
    /\ computing' = computing \cup {c}
    /\ isLoadingSummary' = TRUE
    /\ lastSummaryOp' = summaryOp("start", c.version, inputVersion)
    /\ UNCHANGED <<inputVersion, cleanup, projectSummary, apiKeyValid>>

\* The await returns a text (setProjectSummary(summary)) or throws (the
\* catch sets the counts text); finally setIsLoadingSummary(false).
SummarySettled(c, failed) ==
    /\ c \in computing
    /\ computing' = computing \ {c}
    /\ projectSummary' = IF failed THEN fallbackSummary(c) ELSE generatedSummary(c)
    /\ isLoadingSummary' = FALSE
    /\ lastSummaryOp' = summaryOp("result", c.version, inputVersion)
    /\ UNCHANGED <<inputVersion, timers, cleanup, apiKeyValid>>

(***************************************************************************)
(* Dashboard: loading the tasks of the selected project (initial fetch and *)
(* real-time subscription), and the task service behind it.  The user is   *)
(* signed in.  serverDocs are the task documents of the data source,       *)
(* issuedIds the document ids it has given out.                            *)
(***************************************************************************)
\* Number of runs of the loading effect (project selections).
MaxRuns == 3
Titles == {"a", "b"}
TaskOrder == <<"t1", "t2">>
SyncTaskValues == [id : TaskIds, projectId : Projects, title : Titles]

docWithId(docs, id) == CHOOSE d \in docs : d.id = id
\* The documents of the tasks collection where projectId == the project, as a list.
projectTasksOf(docs, project) ==
    LET has(id) == \E d \in docs : d.id = id /\ d.projectId = project
        ids == SelectSeq(TaskOrder, has)
    IN  [i \in DOMAIN ids |-> docWithId(docs, ids[i])]

NoSubscription == [state |-> "none", project |-> NoProject]
NoLoad == [op |-> "none", project |-> NoProject, selected |-> NoProject, wrote |-> FALSE]

\* if (selectedProject && currentProjectId === selectedProject.id), with the
\* selectedProject and the currentProjectId of the effect run's closure.
stillSameProject(closureProject, currentProjectId) ==
    closureProject # NoProject /\ currentProjectId = closureProject

SyncInit ==
    /\ run = 0
    /\ serverDocs = {}
    /\ issuedIds = {}
    /\ fetches = {}
    /\ subscription = NoSubscription
    /\ snapshotDue = FALSE
    /\ initialFetchDone = FALSE
    /\ loaded = FALSE
    /\ pendingLocal = <<>>
    /\ lastLoad = NoLoad

\* The effect with deps [selectedProject, user, setTasks] after a change of
\* the selected project: cleanup of the last run (clearTimeout, unsubscribe),
\* then setTasks([]) for no project, else the initial fetch is started and
\* the subscription timer set.
LoadEffect ==
    /\ run' = run + 1
    /\ snapshotDue' = FALSE
    /\ initialFetchDone' = FALSE
    /\ loaded' = FALSE
    /\ lastLoad' = NoLoad
    /\ IF selectedProject' = NoProject
       THEN /\ tasks' = <<>>
            /\ subscription' = NoSubscription
            /\ UNCHANGED fetches
       ELSE /\ fetches' = fetches \cup {[project |-> selectedProject', run |-> run + 1]}
            /\ subscription' = [state |-> "timer", project |-> selectedProject']
            /\ UNCHANGED tasks
    /\ UNCHANGED <<currentView, timelineZoom, serverDocs, issuedIds, pendingLocal>>

\* await taskService.getProjectTasks(currentProjectId) returns or throws.
FetchSettled(f, ok) ==
    /\ f \in fetches
    /\ fetches' = fetches \ {f}
    /\ LET wrote == ok /\ stillSameProject(f.project, f.project)
       IN  /\ tasks' = IF wrote THEN projectTasksOf(serverDocs, f.project) ELSE tasks
           /\ loaded' = (loaded \/ (wrote /\ f.run = run))
           /\ lastLoad' = [op |-> "fetch", project |-> f.project,
                           selected |-> selectedProject, wrote |-> wrote]
    /\ initialFetchDone' = (initialFetchDone \/ f.run = run)
    /\ UNCHANGED <<currentView, timelineZoom, run, serverDocs, issuedIds, subscription,
                   snapshotDue, pendingLocal>>

\* The 100 ms timer fires: subscribeToProjectTasks; the first snapshot is due.
SubscribeTimerFires ==
    /\ subscription.state = "timer"
    /\ subscription' = [subscription EXCEPT !.state = "active"]
    /\ snapshotDue' = TRUE
    /\ UNCHANGED <<layoutVars, run, serverDocs, issuedIds, fetches, initialFetchDone,
                   loaded, pendingLocal, lastLoad>>

\* The onSnapshot callback of the live subscription.
SnapshotCallback ==
    /\ subscription.state = "active"
    /\ snapshotDue
    /\ snapshotDue' = FALSE
    /\ LET projectTasks == projectTasksOf(serverDocs, subscription.project)
           isTransientEmpty == Len(projectTasks) = 0 /\ ~initialFetchDone
           wrote == ~isTransientEmpty
                    /\ stillSameProject(subscription.project, subscription.project)
       IN  /\ tasks' = IF wrote THEN projectTasks ELSE tasks
           /\ loaded' = (loaded \/ wrote)
           /\ lastLoad' = [op |-> "snapshot", project |-> subscription.project,
                           selected |-> selectedProject, wrote |-> wrote]
    /\ UNCHANGED <<currentView, timelineZoom, run, serverDocs, issuedIds, fetches,
                   subscription, initialFetchDone, pendingLocal>>

\* A write reaches the data source: the listeners of the project get a snapshot.
serverWrite(docs) ==
    /\ serverDocs' = docs
    /\ snapshotDue' = (snapshotDue \/ subscription.state = "active")

\* TaskModal create and Kanban quick add up to the await: taskService.createTask
\* adds the document under an id never given out before.
CreateTaskCalled(task) ==
    /\ pendingLocal = <<>>
    /\ selectedProject # NoProject
    /\ task.projectId = selectedProject
    /\ task.id \notin issuedIds
    /\ issuedIds' = issuedIds \cup {task.id}
    /\ serverWrite(serverDocs \cup {task})
    /\ pendingLocal' = <<[op |-> "add", task |-> task]>>
    /\ UNCHANGED <<layoutVars, run, fetches, subscription, initialFetchDone, loaded,
                   lastLoad>>

\* taskService.updateTask, up to the await.
UpdateTaskCalled(task, title) ==
    /\ pendingLocal = <<>>
    /\ LET updated == [task EXCEPT !.title = title]
       IN  /\ serverWrite((serverDocs \ {d \in serverDocs : d.id = task.id}) \cup {updated})
           /\ pendingLocal' = <<[op |-> "update", task |-> updated]>>
    /\ UNCHANGED <<layoutVars, run, issuedIds, fetches, subscription, initialFetchDone,
                   loaded, lastLoad>>

\* taskService.deleteTask, up to the await.
DeleteTaskCalled(task) ==
    /\ pendingLocal = <<>>
    /\ serverWrite(serverDocs \ {d \in serverDocs : d.id = task.id})
    /\ pendingLocal' = <<[op |-> "delete", task |-> task]>>
    /\ UNCHANGED <<layoutVars, run, issuedIds, fetches, subscription, initialFetchDone,
                   loaded, lastLoad>>

\* The awaited call has returned: addTask, updateTask or deleteTask of the store.
LocalChangeApplied ==
    /\ pendingLocal # <<>>
    /\ LET p == pendingLocal[1]
       IN  CASE p.op = "add" -> AddTask(p.task)
             [] p.op = "update" -> UpdateTask(p.task)
             [] OTHER -> DeleteTask(p.task.id)
    /\ pendingLocal' = <<>>
    /\ UNCHANGED <<run, serverDocs, issuedIds, fetches, subscription, snapshotDue,
                   initialFetchDone, loaded, lastLoad>>

(***************************************************************************)
(* Creating and editing tasks: the task dialog (TaskModal), the quick add  *)
(* of the Kanban board, the completion toggle and the delete button.  A    *)
(* handler runs up to its await of the task service (editInFlight), and    *)
(* goes on when the call has returned or thrown.                           *)
(***************************************************************************)
\* The options of the status select of the task dialog.
DialogStatuses == {"todo", "in-progress", "review", "done"}

remoteCall(handler, kind, task) == [handler |-> handler, kind |-> kind, task |-> task]
\* The last step of a handler: changed tells whether it changed the tasks of
\* the store.
edit(handler, outcome, changed) ==
    [handler |-> handler, outcome |-> outcome, changed |-> changed]
NoEdit == edit("none", "none", FALSE)

EditInit ==
    /\ editInFlight = <<>>
    /\ lastEdit = NoEdit

\* A handler up to its await: the call is on its way, the store is as it was.
Awaiting(call) ==
    /\ editInFlight = <<>>
    /\ editInFlight' = <<call>>
    /\ UNCHANGED layoutVars
    /\ lastEdit' = edit(call.handler, "called", tasks' # tasks)

\* TaskModal.handleSubmit for a new task: completed: false, status as selected.
SubmitNewTask(id, status) ==
    Awaiting(remoteCall("TaskModal.create", "add",
                        [id |-> id, status |-> status, completed |-> FALSE]))

\* TaskModal.handleSubmit for an existing task: { ...task, status, ... }.
SubmitEditedTask(task, status) ==
    Awaiting(remoteCall("TaskModal.update", "update", [task EXCEPT !.status = status]))

\* handleQuickAddTask of a column: completed: status === 'done'.
HandleQuickAddTask(id, status) ==
    /\ currentView = "kanban"
    /\ Awaiting(remoteCall("handleQuickAddTask", "add",
                           [id |-> id, status |-> status, completed |-> (status = "done")]))

\* handleToggleComplete: completed flipped, status done or todo with it.
HandleToggleComplete(task) ==
    LET newCompleted == ~task.completed
        newStatus == IF newCompleted THEN "done" ELSE "todo"
    IN  Awaiting(remoteCall("handleToggleComplete", "update",
                            [task EXCEPT !.completed = newCompleted, !.status = newStatus]))

\* handleDeleteTask (Timeline and KanbanBoard) once the user has confirmed.
HandleDeleteTask(task) ==
    Awaiting(remoteCall("handleDeleteTask", "delete", task))

\* A handler whose store call is not inside the try.
localChangeRunsAlways(ok) == TRUE
\* The store call follows the await inside the try: it runs when the await
\* has not thrown.
localChangeRuns(ok) == ok

\* The awaited call returns (addTask, updateTask or deleteTask follows) or
\* throws (the catch shows a toast).
EditSettled(ok) ==
    /\ editInFlight # <<>>
    /\ LET call == editInFlight[1]
       IN  /\ IF localChangeRuns(ok)
              THEN CASE call.kind = "add" -> AddTask(call.task)
                     [] call.kind = "update" -> UpdateTask(call.task)
                     [] OTHER -> DeleteTask(call.task.id)
              ELSE UNCHANGED layoutVars
           /\ lastEdit' = edit(call.handler, IF ok THEN "ok" ELSE "failed", tasks' # tasks)
    /\ editInFlight' = <<>>

Init ==
    /\ LayoutInit /\ PersistInit /\ ScrollInit /\ BindInit /\ BoardInit
    /\ ProjectInit /\ SummaryInit /\ SyncInit /\ EditInit

\* The lists loaded hold tasks of one instant, and an edit of a task changes
\* one of its dates: every list of Snapshots and every pair of dates is
\* reached by a load and the edits after it.
Next ==
    \/ \E ts \in {sn \in Snapshots : Len(sn) = 0 \/ sn[1].startDate = sn[1].endDate} :
          SetTasks(ts) /\ UNCHANGED <<scrollVars, boardVars, asyncVars, bindVars, persistVars>>
    \/ \E task \in TaskValues : task.id \notin idsOf(tasks) /\ AddTask(task) /\ UNCHANGED <<scrollVars, boardVars, asyncVars, bindVars, persistVars>>
    \/ \E i \in DOMAIN tasks, date \in Dates :
          \E task \in {[tasks[i] EXCEPT !.startDate = date], [tasks[i] EXCEPT !.endDate = date]} :
              UpdateTask(task) /\ UNCHANGED <<scrollVars, boardVars, asyncVars, bindVars, persistVars>>
    \/ \E taskId \in TaskIds : DeleteTask(taskId) /\ UNCHANGED <<scrollVars, boardVars, asyncVars, bindVars, persistVars>>
    \/ \E view \in Views : SetCurrentView(view) /\ UNCHANGED <<scrollVars, boardVars, asyncVars, bindVars, persistVars>>
    \/ \E zoom \in ZoomInputs : SetTimelineZoom(zoom)
                              /\ UNCHANGED <<scrollVars, boardVars, asyncVars, bindVars, isSidebarCollapsed, lastOp>>

Spec == Init /\ [][Next]_vars

ScrollNext ==
    \/ \E s \in Surfaces, v \in Offsets : UserScroll(s, v) /\ UNCHANGED <<layoutVars, boardVars, asyncVars, bindVars, persistVars>>
    \/ HandleScroll /\ UNCHANGED <<layoutVars, boardVars, asyncVars, bindVars, persistVars>>

ScrollSpec == Init /\ [][ScrollNext]_vars

\* Task dates of the binding model: the start of the first and of the last
\* day of the window, and Invalid Date; its zoom inputs: the ends of the slider.
BindDates == {d \in Dates : isValidDate(d) =>
                 getTime(d) \in {0, (MaxTick \div TicksPerDay) * TicksPerDay}}
BindZoomInputs == {50, 200}
BindTaskValues == {t \in TaskValues : t.startDate \in BindDates /\ t.endDate \in BindDates}
BindSnapshots == {ts \in Snapshots : \A i \in DOMAIN ts : ts[i] \in BindTaskValues}

BindNext ==
    \/ \E ts \in BindSnapshots : SetTasks(ts) /\ RenderTimeline(TRUE) /\ SyncScrollEffect
         /\ UNCHANGED <<scrollVars, boardVars, asyncVars, persistVars>>
    \/ \E task \in BindTaskValues : task.id \notin idsOf(tasks) /\ AddTask(task) /\ RenderTimeline(TRUE) /\ SyncScrollEffect
         /\ UNCHANGED <<scrollVars, boardVars, asyncVars, persistVars>>
    \/ \E task \in BindTaskValues : UpdateTask(task) /\ RenderTimeline(TRUE) /\ SyncScrollEffect
         /\ UNCHANGED <<scrollVars, boardVars, asyncVars, persistVars>>
    \/ \E taskId \in TaskIds : DeleteTask(taskId) /\ RenderTimeline(TRUE) /\ SyncScrollEffect
         /\ UNCHANGED <<scrollVars, boardVars, asyncVars, persistVars>>
    \/ \E view \in Views : SetCurrentView(view) /\ RenderTimeline(FALSE) /\ SyncScrollEffect
         /\ UNCHANGED <<scrollVars, boardVars, asyncVars, persistVars>>
    \/ \E zoom \in BindZoomInputs : SetTimelineZoom(zoom) /\ RenderTimeline(FALSE) /\ SyncScrollEffect
                                  /\ UNCHANGED <<scrollVars, boardVars, asyncVars, isSidebarCollapsed, lastOp>>

BindSpec == Init /\ [][BindNext]_vars

\* What the two storage entries may hold when the page is loaded.
StoredNumbers == {25, 100, 500}
ZoomEntries == {Missing, entry("empty", 0), entry("garbage", 0), entry("null", 0)}
                   \cup {JSONstringify(n) : n \in StoredNumbers}
SidebarEntries == {Missing, entry("empty", 0), entry("garbage", 0),
                   booleanToString(TRUE), booleanToString(FALSE)}
StorageContents == [timelineZoom : ZoomEntries, sidebarCollapsed : SidebarEntries]

PersistSpecInit ==
    /\ \E st \in StorageContents :
          /\ StoreCreated(st)
          /\ lastOp = [op |-> "create", arg |-> 0, before |-> 100,
                       beforeType |-> "number", raised |-> startOp(st).raised,
                       buttonsOnly |-> startOp(st).buttonsOnly]
    /\ ScrollInit
    /\ BindInit
    /\ BoardInit
    /\ ProjectInit
    /\ SummaryInit
    /\ SyncInit
    /\ EditInit

PersistNext ==
    \/ \E zoom \in ZoomInputs :
          /\ SetTimelineZoom(zoom)
          /\ lastOp' = op("setTimelineZoom", zoom, FALSE)
          /\ UNCHANGED <<scrollVars, boardVars, asyncVars, bindVars, isSidebarCollapsed>>
    \/ /\ HandleZoomIn
       /\ lastOp' = op("zoomIn", 0, lastOp.buttonsOnly)
       /\ UNCHANGED <<scrollVars, boardVars, asyncVars, bindVars, isSidebarCollapsed>>
    \/ /\ HandleZoomOut
       /\ lastOp' = op("zoomOut", 0, lastOp.buttonsOnly)
       /\ UNCHANGED <<scrollVars, boardVars, asyncVars, bindVars, isSidebarCollapsed>>
    \/ /\ HandleReset
       /\ lastOp' = op("resetZoom", 0, lastOp.buttonsOnly)
       /\ UNCHANGED <<scrollVars, boardVars, asyncVars, bindVars, isSidebarCollapsed>>
    \/ \E collapsed \in BOOLEAN :
          /\ SetSidebarCollapsed(collapsed)
          /\ lastOp' = op("setSidebarCollapsed", IF collapsed THEN 1 ELSE 0,
                          lastOp.buttonsOnly)
          /\ UNCHANGED <<scrollVars, boardVars, asyncVars, bindVars>>
    \/ /\ Restart
       /\ lastOp' = [op("restart", 0, startOp(storage).buttonsOnly)
                        EXCEPT !.raised = startOp(storage).raised]
       /\ UNCHANGED <<scrollVars, boardVars, asyncVars, bindVars>>

PersistSpec == PersistSpecInit /\ [][PersistNext]_vars

\* The tasks the board is given: none, or one task read from the service.
SummaryTask(id, completed) == [id |-> id, status |-> "todo", completed |-> completed]
SummarySnapshots == {<<>>, <<SummaryTask("t1", FALSE)>>,
                     <<SummaryTask("t1", TRUE), SummaryTask("t2", FALSE)>>}

SummarySpecInit ==
    /\ LayoutInit /\ PersistInit /\ ScrollInit /\ BindInit /\ BoardInit
    /\ ProjectInit /\ SyncInit /\ EditInit
    /\ inputVersion = 0
    /\ timers = {}
    /\ cleanup = {}
    /\ computing = {}
    /\ projectSummary = NoSummary
    /\ isLoadingSummary = FALSE
    /\ apiKeyValid \in BOOLEAN
    /\ lastSummaryOp = summaryOp("clear", 0, 0)

SummaryNext ==
    \/ \E ts \in SummarySnapshots :
          /\ inputVersion < MaxChanges
          /\ SetTasks(ts)
          /\ UNCHANGED <<projectVars, scrollVars, bindVars, persistVars, boardVars, syncVars, editVars>>
          /\ SummaryEffect
    \/ \E project \in Projects \cup {NoProject} :
          /\ inputVersion < MaxChanges
          /\ project # selectedProject
          /\ SetSelectedProject(project)
          /\ UNCHANGED <<layoutVars, scrollVars, bindVars, persistVars, boardVars, syncVars, editVars>>
          /\ SummaryEffect
    \/ \E c \in timers :
          TimerFires(c) /\ UNCHANGED <<layoutVars, projectVars, scrollVars, bindVars, persistVars, boardVars, syncVars, editVars>>
    \/ \E c \in computing, failed \in BOOLEAN :
          SummarySettled(c, failed)
          /\ UNCHANGED <<layoutVars, projectVars, scrollVars, bindVars, persistVars, boardVars, syncVars, editVars>>

SummarySpec == SummarySpecInit /\ [][SummaryNext]_vars

\* The data source holds one task of project p1 when the Dashboard mounts.
SyncSpecInit ==
    /\ LayoutInit /\ PersistInit /\ ScrollInit /\ BindInit /\ BoardInit
    /\ ProjectInit /\ SummaryInit /\ EditInit
    /\ run = 0
    /\ serverDocs = {[id |-> "t1", projectId |-> "p1", title |-> "a"]}
    /\ issuedIds = {"t1"}
    /\ fetches = {}
    /\ subscription = NoSubscription
    /\ snapshotDue = FALSE
    /\ initialFetchDone = FALSE
    /\ loaded = FALSE
    /\ pendingLocal = <<>>
    /\ lastLoad = NoLoad
syncRest == <<scrollVars, bindVars, persistVars, boardVars, summaryVars, editVars>>

SyncNext ==
    \/ \E project \in Projects \cup {NoProject} :
          /\ run < MaxRuns
          /\ project # selectedProject
          /\ SetSelectedProject(project)
          /\ LoadEffect
          /\ UNCHANGED syncRest
    \/ \E f \in fetches, ok \in BOOLEAN :
          FetchSettled(f, ok) /\ UNCHANGED <<projectVars, syncRest>>
    \/ SubscribeTimerFires /\ UNCHANGED <<projectVars, syncRest>>
    \/ SnapshotCallback /\ UNCHANGED <<projectVars, syncRest>>
    \/ \E task \in SyncTaskValues :
          /\ task.title = "a"
          /\ CreateTaskCalled(task)
          /\ UNCHANGED <<projectVars, syncRest>>
    \/ \E i \in DOMAIN tasks :
          UpdateTaskCalled(tasks[i], "b") /\ UNCHANGED <<projectVars, syncRest>>
    \/ \E i \in DOMAIN tasks :
          DeleteTaskCalled(tasks[i]) /\ UNCHANGED <<projectVars, syncRest>>
    \/ LocalChangeApplied /\ UNCHANGED <<currentView, timelineZoom, projectVars, syncRest>>

SyncSpec == SyncSpecInit /\ [][SyncNext]_vars

EditViews == {"daily", "kanban"}
\* The ids the task service gives to the tasks created.
EditIds == {"t1"}
editRest == <<scrollVars, bindVars, persistVars, projectVars, summaryVars>>
syncUntouched == <<run, serverDocs, fetches, subscription, snapshotDue,
                   initialFetchDone, loaded, pendingLocal, lastLoad>>
boardUntouched == <<customColumns, draggedTask, dropInFlight, now, lastBoardOp>>

EditNext ==
    \/ \E view \in EditViews :
          /\ OpenView(view)
          /\ lastEdit' = NoEdit
          /\ UNCHANGED <<lastBoardOp, editInFlight, syncVars, editRest>>
    \/ \E id \in EditIds \ issuedIds, status \in DialogStatuses :
          /\ SubmitNewTask(id, status)
          /\ issuedIds' = issuedIds \cup {id}
          /\ UNCHANGED <<boardUntouched, syncUntouched, editRest>>
    \/ \E i \in DOMAIN tasks, status \in DialogStatuses :
          SubmitEditedTask(tasks[i], status)
          /\ UNCHANGED <<boardUntouched, syncVars, editRest>>
    \/ \E id \in EditIds \ issuedIds, status \in columnStatuses(customColumns) :
          /\ HandleQuickAddTask(id, status)
          /\ issuedIds' = issuedIds \cup {id}
          /\ UNCHANGED <<boardUntouched, syncUntouched, editRest>>
    \/ \E i \in DOMAIN tasks :
          HandleToggleComplete(tasks[i]) /\ UNCHANGED <<boardUntouched, syncVars, editRest>>
    \/ \E i \in DOMAIN tasks :
          HandleDeleteTask(tasks[i]) /\ UNCHANGED <<boardUntouched, syncVars, editRest>>
    \/ \E ok \in BOOLEAN :
          EditSettled(ok) /\ UNCHANGED <<boardUntouched, syncVars, editRest>>
    \/ \E task \in cards(tasks, customColumns) :
          /\ HandleDragStart(task)
          /\ lastEdit' = NoEdit
          /\ UNCHANGED <<lastBoardOp, editInFlight, syncVars, editRest>>
    \/ \E newStatus \in columnStatuses(customColumns) :
          /\ HandleDrop(newStatus)
          /\ lastEdit' = edit("handleDrop", IF dropInFlight' = <<>> THEN "skipped" ELSE "called",
                              tasks' # tasks)
          /\ UNCHANGED <<lastBoardOp, editInFlight, syncVars, editRest>>
    \/ /\ DropSucceeded
       /\ lastEdit' = edit("handleDrop", "ok", tasks' # tasks)
       /\ UNCHANGED <<editInFlight, syncVars, editRest>>
    \/ /\ DropFailed
       /\ lastEdit' = edit("handleDrop", "failed", tasks' # tasks)
       /\ UNCHANGED <<lastBoardOp, editInFlight, syncVars, editRest>>

EditSpec == Init /\ [][EditNext]_vars

BoardSnapshotStatuses == {NoStatus, "todo", "done"}
BoardTaskValues == [id : TaskIds, status : BoardSnapshotStatuses, completed : BOOLEAN]
BoardSnapshots == {<<>>} \cup {<<t>> : t \in BoardTaskValues}
restVars == <<scrollVars, bindVars, persistVars, asyncVars>>

BoardNext ==
    \/ \E view \in Views :
          OpenView(view) /\ lastBoardOp' = NoBoardOp /\ UNCHANGED restVars
    \/ \E ts \in BoardSnapshots :
          /\ SetTasks(ts)
          /\ lastBoardOp' = NoBoardOp
          /\ UNCHANGED <<customColumns, draggedTask, dropInFlight, now, restVars>>
    \/ \E task \in cards(tasks, customColumns) :
          HandleDragStart(task) /\ lastBoardOp' = NoBoardOp /\ UNCHANGED restVars
    \/ \E newStatus \in columnStatuses(customColumns) :
          HandleDrop(newStatus) /\ lastBoardOp' = NoBoardOp /\ UNCHANGED restVars
    \/ DropSucceeded /\ UNCHANGED restVars
    \/ DropFailed /\ lastBoardOp' = NoBoardOp /\ UNCHANGED restVars
    \/ \E title \in NewTitles :
          HandleAddColumn(title) /\ lastBoardOp' = NoBoardOp /\ UNCHANGED restVars

BoardSpec == Init /\ [][BoardNext]_vars

columnOp(name, columnId) ==
    [NoBoardOp EXCEPT !.op = name, !.id = columnId, !.before = customColumns]
ColumnNext ==
    \/ \E view \in Views :
          OpenView(view) /\ lastBoardOp' = NoBoardOp /\ UNCHANGED restVars
    \/ \E title \in NewTitles :
          /\ HandleAddColumn(title)
          /\ lastBoardOp' = columnOp("add", CustomIds[now'])
          /\ UNCHANGED restVars
    \/ \E columnId \in columnIds(customColumns), newTitle \in EditTitles :
          /\ HandleEditColumn(columnId, newTitle)
          /\ lastBoardOp' = columnOp("edit", columnId)
          /\ UNCHANGED restVars
    \/ \E columnId \in columnIds(customColumns) :
          /\ HandleDeleteColumn(columnId)
          /\ lastBoardOp' = columnOp("delete", columnId)
          /\ UNCHANGED restVars

ColumnSpec == Init /\ [][ColumnNext]_vars

(***************************************************************************)
(* Properties.                                                             *)
(***************************************************************************)
TimelineViews == {"daily", "weekly", "monthly"}
TD == timelineData(tasks, currentView)
RTD == roTimelineData(tasks, currentView)
startTime(task) == getTime(task.startDate)
endTime(task) == getTime(task.endDate)
\* Whole days from the timeline start to the instant t.
daysFromStart(t, td) == differenceInDays(t, getTime(td.startDate))

\* C1: in the daily view, for every task of a non-empty set of valid-date
\* tasks, the interval [offset, offset+length) that getTaskPosition returns,
\* converted back to whole days counted from the timeline start, contains
\* every day from the task's startDate to its endDate (in the Timeline, where
\* the position is a percentage of totalDays, and in the ReadOnlyTimeline,
\* where it is a number of columns).
C1_DailyIntervalContainsTask ==
    currentView = "daily" =>
        \A i \in DOMAIN TD.tasks :
            LET task == TD.tasks[i]
                total == totalDaysOf(TD)
                pos == getTaskPosition(task, TD, "daily")
                lo == RMul(pos.left, <<total, 100>>)
                hi == RMul(RAdd(pos.left, pos.width), <<total, 100>>)
                cw == roGetColumnWidth("daily", timelineZoom)
                rpos == roGetTaskPosition(task, RTD, "daily", cw)
                rlo == <<rpos.left, cw>>
                rhi == <<rpos.left + rpos.width, cw>>
            IN  \A d \in daysFromStart(startTime(task), TD)
                            ..daysFromStart(endTime(task), TD) :
                    /\ RLe(lo, RInt(d)) /\ RLe(RInt(d + 1), hi)
                    /\ RLe(rlo, RInt(d)) /\ RLe(RInt(d + 1), rhi)

\* C1 witness: daily view, two tasks, one of them starting after the timeline
\* start and lasting more than one day.
C1_Witness ==
    /\ currentView = "daily"
    /\ Len(TD.tasks) = 2
    /\ \E i \in DOMAIN TD.tasks :
          /\ daysFromStart(startTime(TD.tasks[i]), TD) > 0
          /\ daysFromStart(endTime(TD.tasks[i]), TD)
                > daysFromStart(startTime(TD.tasks[i]), TD)

\* The index findIndex returns for a task date, before the fallbacks.
foundIndex(t, td, view) == findIndex(td.periods, view, t)
\* Period i (1-based) runs from its start to the instant before the next
\* period's start, the last one to the end of the timeline.
periodLast(i, td) ==
    IF i < Len(td.periods) THEN td.periods[i + 1] - 1 ELSE getTime(td.endDate)
periodsHolding(t, td) ==
    {i \in DOMAIN td.periods : td.periods[i] <= t /\ t <= periodLast(i, td)}
periodsOverlapping(task, td) ==
    {i \in DOMAIN td.periods :
        td.periods[i] <= endTime(task) /\ periodLast(i, td) >= startTime(task)}

\* C2: in the weekly and monthly views, for every valid task with
\* startDate <= endDate, exactly one period holds startDate and exactly one
\* holds endDate, findIndex finds them (no fallback is taken), and the task is
\* placed at offset startIndex/total with length (endIndex-startIndex+1)/total,
\* which are exactly the periods overlapping its date range.
C2_WeeklyMonthlyIndexes ==
    currentView \in {"weekly", "monthly"} =>
        \A k \in DOMAIN TD.tasks :
            LET task == TD.tasks[k]
                total == Len(TD.periods)
                pos == getTaskPosition(task, TD, currentView)
            IN  startTime(task) <= endTime(task) =>
                  /\ Cardinality(periodsHolding(startTime(task), TD)) = 1
                  /\ Cardinality(periodsHolding(endTime(task), TD)) = 1
                  /\ LET si == SetMin(periodsHolding(startTime(task), TD)) - 1
                         ei == SetMin(periodsHolding(endTime(task), TD)) - 1
                     IN  /\ foundIndex(startTime(task), TD, currentView) = si
                         /\ foundIndex(endTime(task), TD, currentView) = ei
                         /\ REq(pos.left, <<si * 100, total>>)
                         /\ REq(pos.width, <<(ei - si + 1) * 100, total>>)
                         /\ periodsOverlapping(task, TD) = (si + 1)..(ei + 1)

\* C2 witness: a task that starts in one period and ends in a later one, and
\* does not start in the first period.
C2_Witness ==
    /\ currentView \in {"weekly", "monthly"}
    /\ \E k \in DOMAIN TD.tasks :
          /\ startTime(TD.tasks[k]) <= endTime(TD.tasks[k])
          /\ foundIndex(startTime(TD.tasks[k]), TD, currentView) >= 0
          /\ foundIndex(endTime(TD.tasks[k]), TD, currentView)
                > foundIndex(startTime(TD.tasks[k]), TD, currentView)
    /\ \E k \in DOMAIN TD.tasks :
          foundIndex(startTime(TD.tasks[k]), TD, currentView) > 0

EditableRender == renderTimeline(tasks, currentView, timelineZoom)
ReadOnlyRender == renderReadOnly(tasks, currentView, timelineZoom)

\* C3: for every task set, every granularity in {daily, weekly, monthly} and
\* every zoom in [50,200], the Timeline and the ReadOnlyTimeline compute the
\* same total grid width and, for every task bar, the same pixel left offset
\* and the same pixel width.
C3_PixelIdenticalGeometry ==
    currentView \in TimelineViews =>
        /\ EditableRender.gridWidth = ReadOnlyRender.gridWidth
        /\ Len(EditableRender.bars) = Len(ReadOnlyRender.bars)
        /\ \A i \in DOMAIN EditableRender.bars :
              /\ REq(EditableRender.bars[i].left, ReadOnlyRender.bars[i].left)
              /\ REq(EditableRender.bars[i].width, ReadOnlyRender.bars[i].width)

\* C4: in the daily view of the Timeline, a task with startDate = endDate is
\* drawn exactly one column wide, whatever the number of days of the task set.
C4_SingleDayTaskOneColumn ==
    currentView = "daily" =>
        \A i \in DOMAIN TD.tasks :
            TD.tasks[i].startDate = TD.tasks[i].endDate =>
                REq(EditableRender.bars[i].width,
                    RInt(getColumnWidth("daily", timelineZoom)))

\* C5: for a task whose endDate is earlier than its startDate no granularity
\* gives a negative or zero length: the daily duration is 1 day (the width at
\* least one day's share, one column in the ReadOnlyTimeline), and in the
\* weekly and monthly views endIndex is not less than startIndex and the
\* length is one period.
C5_ReversedTaskMinimumLength ==
    currentView \in TimelineViews =>
        \A i \in DOMAIN TD.tasks :
            LET task == TD.tasks[i]
                pos == getTaskPosition(task, TD, currentView)
                cw == roGetColumnWidth(currentView, timelineZoom)
                rpos == roGetTaskPosition(task, RTD, currentView, cw)
            IN  endTime(task) < startTime(task) =>
                  /\ RLt(RInt(0), pos.width)
                  /\ rpos.width = cw
                  /\ currentView = "daily" =>
                        /\ taskDuration(task, TD) = 1
                        /\ RLe(<<100, totalDaysOf(TD)>>, pos.width)
                  /\ currentView = "weekly" =>
                        /\ endIndex(task, TD.periods, "weekly")
                              >= startIndex(task, TD.periods, "weekly")
                        /\ REq(pos.width, <<100, Len(TD.periods)>>)
                  /\ currentView = "monthly" =>
                        /\ endIndex(task, TD.periods, "monthly")
                              >= startIndex(task, TD.periods, "monthly")
                        /\ REq(pos.width, <<100, Len(TD.periods)>>)

\* C5 witness: the weekly view of a task that ends in the week before the one
\* it starts in.
C5_Witness ==
    /\ currentView = "weekly"
    /\ \E i \in DOMAIN TD.tasks :
          /\ endTime(TD.tasks[i]) < startTime(TD.tasks[i])
          /\ foundIndex(endTime(TD.tasks[i]), TD, currentView) >= 0
          /\ foundIndex(endTime(TD.tasks[i]), TD, currentView)
                < foundIndex(startTime(TD.tasks[i]), TD, currentView)

\* C6: in the editable and in the read-only timeline an empty set of
\* valid-date tasks gives no periods, and a non-empty one gives at least one
\* period and a totalDays of at least 1, for every value of currentView the
\* store holds while the component is mounted.
C6_PeriodsNonEmpty ==
    /\ Len(roValidTasks(tasks)) = 0 => Len(RTD.periods) = 0
    /\ Len(roValidTasks(tasks)) > 0 =>
          Len(RTD.periods) >= 1 /\ totalDaysOf(RTD) >= 1
    /\ dashboardShowsTimeline(currentView) =>
          /\ Len(validTasks(tasks)) = 0 => Len(TD.periods) = 0
          /\ Len(validTasks(tasks)) > 0 =>
                Len(TD.periods) >= 1 /\ totalDaysOf(TD) >= 1

\* C7: for every task, granularity and zoom in [50,200], the pixel width of
\* the task bar is at least one column width, in both timelines.
C7_BarAtLeastOneColumn ==
    /\ timelineZoom \in 50..200
    /\ dashboardShowsTimeline(currentView) =>
          \A i \in DOMAIN EditableRender.bars :
              RLe(RInt(getColumnWidth(currentView, timelineZoom)),
                  EditableRender.bars[i].width)
    /\ \A i \in DOMAIN ReadOnlyRender.bars :
          RLe(RInt(roGetColumnWidth(currentView, timelineZoom)),
              ReadOnlyRender.bars[i].width)

\* C7 witness: both timelines draw a bar for a task that ends before it starts,
\* at a zoom other than the default.
C7_Witness ==
    /\ currentView \in TimelineViews
    /\ timelineZoom # 100
    /\ Len(EditableRender.bars) >= 1
    /\ Len(ReadOnlyRender.bars) >= 1
    /\ \E i \in DOMAIN TD.tasks : endTime(TD.tasks[i]) < startTime(TD.tasks[i])

\* The input restricted to the tasks with two valid dates, in input order.
hasValidDates(t) == t.startDate # InvalidDate /\ t.endDate # InvalidDate
RECURSIVE restrictToValid(_)
restrictToValid(ts) ==
    IF ts = <<>> THEN <<>>
    ELSE IF hasValidDates(Head(ts))
         THEN <<Head(ts)>> \o restrictToValid(Tail(ts))
         ELSE restrictToValid(Tail(ts))
barIds(render) == [i \in DOMAIN render.bars |-> render.bars[i].id]
taskIds(ts) == [i \in DOMAIN ts |-> ts[i].id]

C9_SettlesAtLastUserScroll ==
    (pending = <<>> /\ lastUserScroll # <<>>) =>
        \A s \in Surfaces : scrollLeft[s] = lastUserScroll[1]

\* C10: handleScroll never runs in response to a scroll event produced by its
\* own write to scrollLeft; it runs once per user scroll.
C10_NoRunOnOwnWrite == lastHandled # "sync"

(***************************************************************************)
(* C11: after any sequence of task additions, task removals, view changes  *)
(* and zoom changes, every rendered task-row scroll surface is bound to    *)
(* the sync handler (it carries the listener, so it emits, and it is in    *)
(* the handler's list of rows, so it receives), and no removed row still   *)
(* holds a binding.                                                        *)
(***************************************************************************)
emitsIntoSync(id) == rowHandlers[id] >= 1
receivesFromSync(id) == registered /\ id \in capturedRows
C11_EveryRenderedRowBound ==
    /\ \A id \in rowSurfaces(tasks, currentView) :
          emitsIntoSync(id) /\ receivesFromSync(id)
    /\ detachedRows = {}

(***************************************************************************)
(* C12: every re-run of the binding effect, and the unmount, removes the   *)
(* handler of the previous run from exactly the surfaces it was added to   *)
(* before a new one is added: a surface carries at most one sync handler,  *)
(* and only a surface of the last run carries one.                         *)
(***************************************************************************)
C12_AtMostOneHandler ==
    /\ headerHandlers = (IF registered THEN 1 ELSE 0)
    /\ \A id \in TaskIds :
          rowHandlers[id] = (IF registered /\ id \in capturedRows THEN 1 ELSE 0)
    /\ ~registered => capturedRows = {} /\ detachedRows = {}

\* A re-bind took the old handler off two rows, one of them kept, and put
\* the new one on the kept row.
C12_Witness ==
    /\ lastEffect.ran
    /\ Cardinality(lastEffect.released) = 2
    /\ Cardinality(lastEffect.released \cap lastEffect.added) = 1
    /\ lastEffect.added \subseteq lastEffect.released
(***************************************************************************)
(* C13: setTimelineZoom(x), for any integer x, leaves the in-memory zoom   *)
(* equal to min(200, max(50, x)), hence within 50..200, and the value      *)
(* stored under the key timelineZoom equal to the in-memory zoom.          *)
(***************************************************************************)
persistedZoom == JSONparse(storage.timelineZoom)
C13_SetZoomClampsAndPersists ==
    lastOp.op = "setTimelineZoom" =>
        /\ zoomType = "number"
        /\ timelineZoom = Min(200, Max(50, lastOp.arg))
        /\ timelineZoom \in 50..200
        /\ ~JSONparseThrows(storage.timelineZoom)
        /\ persistedZoom = jsNumber(timelineZoom)

\* setTimelineZoom(300) has been called.
C13_Witness ==
    /\ lastOp.op = "setTimelineZoom"
    /\ lastOp.arg > 200
    /\ timelineZoom = 200
    /\ storage.timelineZoom = JSONstringify(200)

(***************************************************************************)
(* C14: in every reachable state of the store, the initial state computed  *)
(* at start-up from any content of the timelineZoom entry included, the    *)
(* zoom is a number within 50..200.                                        *)
(***************************************************************************)
C14_ZoomAlwaysInRange ==
    zoomType = "number" /\ timelineZoom \in 50..200

(***************************************************************************)
(* C15: zoomIn at 200 and zoomOut at 50 leave the zoom unchanged; from any *)
(* other zoom of 50, 75, .., 200 zoomIn adds exactly 25 and zoomOut        *)
(* subtracts exactly 25; resetZoom sets 100; so from the default 100 any   *)
(* sequence of the three keeps the zoom among 50, 75, .., 200.             *)
(***************************************************************************)
ZoomSteps == {50, 75, 100, 125, 150, 175, 200}
wasOnStep == lastOp.beforeType = "number" /\ lastOp.before \in ZoomSteps
C15_ZoomButtons ==
    /\ lastOp.op = "zoomIn" /\ wasOnStep =>
          timelineZoom = (IF lastOp.before = 200 THEN 200 ELSE lastOp.before + 25)
    /\ lastOp.op = "zoomOut" /\ wasOnStep =>
          timelineZoom = (IF lastOp.before = 50 THEN 50 ELSE lastOp.before - 25)
    /\ lastOp.op = "resetZoom" => timelineZoom = 100
    /\ lastOp.op \in {"zoomIn", "zoomOut", "resetZoom"} => zoomType = "number"
    /\ lastOp.buttonsOnly => zoomType = "number" /\ timelineZoom \in ZoomSteps

\* zoomIn has moved the zoom from 175 to 200 in a run of button presses
\* from the default.
C15_Witness ==
    /\ lastOp.op = "zoomIn"
    /\ lastOp.buttonsOnly
    /\ lastOp.before = 175
    /\ timelineZoom = 200

(***************************************************************************)
(* C16: start-up with a missing entry or an entry that is not parseable    *)
(* JSON never raises and yields the defaults, zoom 100 and the sidebar     *)
(* expanded; the two keys are handled independently.                       *)
(***************************************************************************)
unusable(saved) == saved.kind = "missing" \/ JSONparseThrows(saved)
justStarted == lastOp.op \in {"create", "restart"}
C16_StartupDefaults ==
    justStarted =>
        /\ ~lastOp.raised
        /\ unusable(storage.timelineZoom) =>
              zoomType = "number" /\ timelineZoom = 100
        /\ unusable(storage.sidebarCollapsed) => isSidebarCollapsed = FALSE
        /\ \A other \in SidebarEntries :
              LET zoom == initializeTimelineZoom(
                              [storage EXCEPT !.sidebarCollapsed = other])
              IN ~zoom.raised /\ zoom.value.n = timelineZoom
                              /\ zoom.value.type = zoomType
        /\ \A other \in ZoomEntries :
              LET sidebar == initializeSidebarState(
                                 [storage EXCEPT !.timelineZoom = other])
              IN ~sidebar.raised /\ sidebar.value.b = isSidebarCollapsed

\* A restart with a corrupt zoom entry next to a stored sidebar flag.
C16_Witness ==
    /\ lastOp.op = "restart"
    /\ storage.timelineZoom.kind = "garbage"
    /\ storage.sidebarCollapsed = booleanToString(TRUE)
    /\ timelineZoom = 100
    /\ isSidebarCollapsed

(***************************************************************************)
(* C17: after any sequence of setTimelineZoom and setSidebarCollapsed and  *)
(* a restart, the restored zoom is the last zoom applied and the restored  *)
(* flag is the last flag set; in every state the values a restart would    *)
(* restore are the in-memory values.                                       *)
(***************************************************************************)
restoredZoom == initializeTimelineZoom(storage).value
restoredSidebar == initializeSidebarState(storage).value
C17_PersistenceRoundTrip ==
    /\ restoredZoom.type = zoomType
    /\ restoredZoom.n = timelineZoom
    /\ restoredSidebar.type = "boolean"
    /\ restoredSidebar.b = isSidebarCollapsed
    /\ lastOp.op = "setSidebarCollapsed" =>
          isSidebarCollapsed = (lastOp.arg = 1)

\* A restart after the zoom was moved to 150 and the sidebar collapsed.
C17_Witness ==
    /\ lastOp.op = "restart"
    /\ timelineZoom = 150
    /\ storage.timelineZoom = JSONstringify(150)
    /\ isSidebarCollapsed
    /\ storage.sidebarCollapsed = booleanToString(TRUE)
(***************************************************************************)
(* C18: after a successful drop of a task onto a column with a status s    *)
(* other than the task's status, the task's status is s and completed is   *)
(* (s = done): dropping into done makes completed true, dropping the task  *)
(* back onto todo makes it false.                                          *)
(***************************************************************************)
droppedTasks == {i \in DOMAIN tasks : tasks[i].id = lastBoardOp.id}
C18_DropSetsStatusAndCompleted ==
    lastBoardOp.op = "drop" =>
        /\ lastBoardOp.status # lastBoardOp.fromStatus
        /\ \A i \in droppedTasks :
              /\ tasks[i].status = lastBoardOp.status
              /\ tasks[i].completed = (lastBoardOp.status = "done")

\* A completed task of the done column has been dropped back onto todo.
C18_Witness ==
    /\ lastBoardOp.op = "drop"
    /\ lastBoardOp.fromStatus = "done"
    /\ lastBoardOp.fromCompleted
    /\ lastBoardOp.status = "todo"
    /\ droppedTasks # {}
    /\ \A i \in droppedTasks : ~tasks[i].completed

(***************************************************************************)
(* C19: every task whose status is absent is listed under the todo column  *)
(* and under no other column.                                              *)
(***************************************************************************)
listedUnder(task, status) ==
    \E i \in DOMAIN getTasksByStatus(tasks, status) :
        getTasksByStatus(tasks, status)[i] = task
C19_AbsentStatusUnderTodo ==
    \A i \in DOMAIN tasks :
        tasks[i].status = NoStatus =>
            /\ listedUnder(tasks[i], "todo")
            /\ \A status \in columnStatuses(customColumns) \ {"todo"} :
                  ~listedUnder(tasks[i], status)

\* A task without status on a board that has a custom column.
C19_Witness ==
    /\ currentView = "kanban"
    /\ Len(customColumns) > Len(InitialColumns)
    /\ \E i \in DOMAIN tasks : tasks[i].status = NoStatus

(***************************************************************************)
(* C20: after any sequence of handleAddColumn, handleEditColumn and        *)
(* handleDeleteColumn the five default columns are present with their      *)
(* original status; handleDeleteColumn on a default id leaves the column   *)
(* set unchanged, and on a custom id removes that column only.             *)
(***************************************************************************)
isCustomId(columnId) == \E n \in DOMAIN CustomIds : CustomIds[n] = columnId
othersOf(columns, columnId) ==
    LET notIt(col) == col.id # columnId IN SelectSeq(columns, notIt)
C20_DefaultColumnsStay ==
    /\ \A status \in DefaultStatuses :
          \E i \in DOMAIN customColumns :
              customColumns[i].id = status /\ customColumns[i].status = status
    /\ lastBoardOp.op = "delete" /\ lastBoardOp.id \in DefaultStatuses =>
          customColumns = lastBoardOp.before
    /\ lastBoardOp.op = "delete" /\ isCustomId(lastBoardOp.id) =>
          /\ customColumns = othersOf(lastBoardOp.before, lastBoardOp.id)
          /\ Len(customColumns) = Len(lastBoardOp.before) - 1
    /\ lastBoardOp.op = "edit" =>
          /\ Len(customColumns) = Len(lastBoardOp.before)
          /\ \A i \in DOMAIN customColumns :
                /\ customColumns[i].id = lastBoardOp.before[i].id
                /\ customColumns[i].status = lastBoardOp.before[i].status

\* The delete of a default column was refused on a board with a custom
\* column and a renamed done column.
C20_Witness ==
    /\ lastBoardOp.op = "delete"
    /\ lastBoardOp.id \in DefaultStatuses
    /\ Len(customColumns) = Len(InitialColumns) + 1
    /\ \E i \in DOMAIN customColumns :
          customColumns[i].id = "done" /\ customColumns[i].title \in EditTitles
(***************************************************************************)
(* C21: whenever the store's view is kanban, the timeline layout is        *)
(* bypassed and the Kanban board is what is shown, on the Dashboard and on *)
(* the shared read-only page; setCurrentView changes neither the zoom nor  *)
(* the tasks (SetCurrentView leaves both unchanged).                       *)
(***************************************************************************)
C21_KanbanShownInKanbanView ==
    currentView = "kanban" =>
        /\ dashboardShows(currentView) = "KanbanBoard"
        /\ sharedPageShows(currentView) = "KanbanBoard"
\* The instants of all tasks of the layout, start and end fields together,
\* and the last instant of the calendar day, week or month that begins at p.
taskInstants == UNION {{startTime(TD.tasks[i]), endTime(TD.tasks[i])} : i \in DOMAIN TD.tasks}
granuleEnd(view, p) ==
    IF view = "daily" THEN p + TicksPerDay - 1 ELSE endOfPeriod(view, p)
alignedStart(view, p) ==
    CASE view = "daily" -> p = startOfDay(p)
      [] view = "weekly" -> p = startOfDay(p) /\ Weekday(DayOf(p)) = 0
      [] OTHER -> p = startOfMonth(p)
granulesHolding(t) ==
    {i \in DOMAIN TD.periods :
        TD.periods[i] <= t /\ t <= granuleEnd(currentView, TD.periods[i])}

(***************************************************************************)
(* C26: for a non-empty valid task set, in the daily, weekly and monthly   *)
(* views, the range runs from the least to the greatest of all start and   *)
(* end dates (widened to whole weeks or months in those views); the        *)
(* periods begin on a day, Sunday or month start, each begins right after  *)
(* the end of the one before, the first holds the range start and the last *)
(* the range end, and every task date lies in exactly one period.          *)
(***************************************************************************)
C26_PeriodsPartitionRange ==
    (currentView \in TimelineViews /\ Len(TD.tasks) > 0) =>
        LET lo == SetMin(taskInstants)
            hi == SetMax(taskInstants)
            n == Len(TD.periods)
        IN  /\ currentView = "daily" => TD.startDate = <<lo>> /\ TD.endDate = <<hi>>
            /\ currentView = "weekly" =>
                    /\ TD.startDate = <<startOfWeek(lo)>>
                    /\ TD.endDate = <<endOfWeek(hi)>>
            /\ currentView = "monthly" =>
                    /\ TD.startDate = <<startOfMonth(lo)>>
                    /\ TD.endDate = <<endOfMonth(hi)>>
            /\ n > 0
            /\ \A i \in 1..n : alignedStart(currentView, TD.periods[i])
            /\ \A i \in 1..(n - 1) :
                    TD.periods[i + 1] = granuleEnd(currentView, TD.periods[i]) + 1
            /\ 1 \in granulesHolding(lo)
            /\ n \in granulesHolding(hi)
            /\ \A t \in taskInstants : Cardinality(granulesHolding(t)) = 1

\* A daily layout of several day periods whose first task date is not at
\* the start of its day.
C26_Witness ==
    /\ currentView = "daily"
    /\ Len(TD.tasks) > 0
    /\ Len(TD.periods) >= 2
    /\ SetMin(taskInstants) # startOfDay(SetMin(taskInstants))

(***************************************************************************)
(* C27: in the daily view the number of day periods equals the totalDays   *)
(* of the position resolver, whatever the times of day of the task dates.  *)
(***************************************************************************)
C27_DayPeriodsEqualTotalDays ==
    (currentView = "daily" /\ Len(TD.tasks) > 0) =>
        Len(TD.periods) = totalDaysOf(TD)
(***************************************************************************)
(* C22: after any sequence of task-set replacements, granularity changes   *)
(* and zoom changes, what the mounted Timeline holds in its memo (periods, *)
(* timeline start and end, tasks) and each task's position computed from   *)
(* it equal those computed from scratch from the current tasks and view;   *)
(* and a zoom change leaves the memo and the positions as they were.       *)
(***************************************************************************)
C22_NoHiddenLayoutState ==
    /\ [](currentView \in TimelineViews =>
            /\ memo = <<TD>>
            /\ \A i \in DOMAIN TD.tasks :
                   getTaskPosition(TD.tasks[i], memo[1], currentView)
                       = getTaskPosition(TD.tasks[i], TD, currentView))
    /\ [][timelineZoom' # timelineZoom =>
            /\ memo' = memo
            /\ tasks' = tasks /\ currentView' = currentView]_vars

\* The zoom has been changed and the Timeline shows weeks with bars.
C22_Witness ==
    /\ timelineZoom # 100
    /\ currentView = "weekly"
    /\ memo # <<>>
    /\ Len(memo[1].periods) > 0
    /\ Len(memo[1].tasks) > 0
(***************************************************************************)
(* C23: every change of (selectedProject, tasks) cancels the pending timer *)
(* and starts a new one, so at most one timer is pending and a summary     *)
(* computation starts only from the latest inputs; and the displayed       *)
(* summary is never overwritten by the result of a computation started     *)
(* from inputs earlier than the latest ones.                               *)
(***************************************************************************)
C23_SummaryFromLatestInputs ==
    /\ Cardinality(timers) <= 1
    /\ \A c \in timers : c.version = inputVersion
    /\ lastSummaryOp.op = "start" => lastSummaryOp.from = lastSummaryOp.latest
    /\ lastSummaryOp.op = "result" => lastSummaryOp.from = lastSummaryOp.latest
(***************************************************************************)
(* C24: the result of an initial fetch or of a subscription callback for   *)
(* project P is written to the store only if P is the selected project     *)
(* when it arrives; and once loading for the selected project has          *)
(* completed, the store holds only tasks of the selected project.          *)
(***************************************************************************)
C24_LoadsOnlyForSelectedProject ==
    /\ lastLoad.wrote => lastLoad.project = lastLoad.selected
    /\ (selectedProject # NoProject /\ loaded) =>
            \A i \in DOMAIN tasks : tasks[i].projectId = selectedProject

(***************************************************************************)
(* C25: task ids are unique within the store's task set in every reachable *)
(* state, under any interleaving of snapshot callbacks with the local      *)
(* addTask after a remote createTask and with updateTask and deleteTask.   *)
(***************************************************************************)
C25_TaskIdsUnique == Cardinality(idsOf(tasks)) = Len(tasks)
(***************************************************************************)
(* C28: after any sequence of task creation and editing through the task   *)
(* dialog, Kanban quick add, Kanban drops and completion toggles, every    *)
(* task of the store has completed = (status = done).                      *)
(***************************************************************************)
C28_CompletedIffDone ==
    \A i \in DOMAIN tasks : tasks[i].completed = (tasks[i].status = "done")

(***************************************************************************)
(* C29: every task of the store is listed in exactly one column of the     *)
(* board (absent status counting as todo), for every status the task       *)
(* dialog, quick add, drops and completion toggles can assign.             *)
(***************************************************************************)
columnsListing(task) ==
    {c \in DOMAIN customColumns : listedUnder(task, customColumns[c].status)}
C29_EveryTaskInOneColumn ==
    \A i \in DOMAIN tasks : Cardinality(columnsListing(tasks[i])) = 1

(***************************************************************************)
(* C30: when the remote call fails in handleDrop, handleToggleComplete or  *)
(* handleDeleteTask, the handler has not changed the store's tasks         *)
(* (neither before the call returned nor in its catch), the handler        *)
(* ends in its catch, and after handleDrop the dragged task is cleared     *)
(* whether the move succeeded, failed or was skipped.                      *)
(***************************************************************************)
FailingHandlers == {"handleDrop", "handleToggleComplete", "handleDeleteTask"}
C30_FailedMutationLeavesStore ==
    /\ (lastEdit.handler \in FailingHandlers /\ lastEdit.outcome \in {"called", "failed"}) =>
            ~lastEdit.changed
    /\ (lastEdit.outcome = "failed" /\ lastEdit.handler # "handleDrop") => editInFlight = <<>>
    /\ (lastEdit.handler = "handleDrop" /\ lastEdit.outcome \in {"ok", "failed", "skipped"}) =>
            /\ draggedTask = <<>>
            /\ dropInFlight = <<>>

\* The completion toggle of a task has failed.
C30_Witness ==
    /\ lastEdit.handler = "handleToggleComplete"
    /\ lastEdit.outcome = "failed"
    /\ Len(tasks) > 0
====
